---------------------------- MODULE Spec2Model ----------------------------
(***************************************************************************)
(* A model of the genetic-algorithm scheduler: the domain catalog          *)
(* (gen/constants.py), the schedule model (gen/models.py), the fitness     *)
(* evaluator (gen/fitness_evaluator.py), selection (gen/selection_         *)
(* methods.py), the genetic operators (gen/genetic_operators.py), the      *)
(* population initializer (gen/population_manager.py) and the evolution    *)
(* controller GeneticAlgorithmEngine.run_optimization                      *)
(* (gen/algorithm_engine.py).                                              *)
(*                                                                         *)
(* Numbers.  Every fitness term of the evaluator is a multiple of 0.05, so *)
(* a fitness score is modelled exactly as an integer number of twentieths  *)
(* (0.5 is 10, 0.25 is 5, -0.4 is -8).  An average, an improvement         *)
(* percentage and a mutation rate are exact rationals [num, den].  The     *)
(* rounding of the source's binary floating point is not modelled.         *)
(*                                                                         *)
(* Objects.  A Schedule and an ActivityAssignment are Python objects; each *)
(* carries its identity in the field ref, and a write to an object is a    *)
(* write to every holder of that ref (HeapWriteFields, HeapSetFitness).    *)
(*                                                                         *)
(* Specifications.  Spec and FairSpec are a call of run_optimization.      *)
(* CallSpec is a caller that holds schedules and calls the evaluator,      *)
(* apply_mutation, _evaluate_entire_population and select_parent_pairs on  *)
(* them directly, in any order.                                            *)
(***************************************************************************)
EXTENDS Integers, Sequences, FiniteSets, TLC

(***************************************************************************)
(* Domain catalog (gen/constants.py)                                       *)
(***************************************************************************)
ALL_FACILITATORS ==
    << "Lock", "Glen", "Banks", "Richards", "Shaw",
       "Singer", "Uther", "Tyler", "Numen", "Zeldin" >>

ALL_TIME_SLOTS ==
    << "10 AM", "11 AM", "12 PM", "1 PM", "2 PM", "3 PM" >>

\* The keys of ROOMS_WITH_CAPACITIES in the order of the dict literal.
ALL_ROOMS ==
    << "Beach 201", "Beach 301", "Frank 119", "Loft 206", "Loft 310",
       "James 325", "Roman 201", "Roman 216", "Slater 003" >>

ROOMS_WITH_CAPACITIES ==
    [ r \in { ALL_ROOMS[i] : i \in 1..Len(ALL_ROOMS) } |->
        CASE r = "Beach 201"  -> 18
          [] r = "Beach 301"  -> 25
          [] r = "Frank 119"  -> 95
          [] r = "Loft 206"   -> 55
          [] r = "Loft 310"   -> 48
          [] r = "James 325"  -> 110
          [] r = "Roman 201"  -> 40
          [] r = "Roman 216"  -> 80
          [] r = "Slater 003" -> 32 ]

\* ALL_ACTIVITIES = list(ACTIVITY_DEFINITIONS.keys()): the catalog order.
ALL_ACTIVITIES ==
    << "SLA101A", "SLA101B", "SLA191A", "SLA191B", "SLA201", "SLA291",
       "SLA303", "SLA304", "SLA394", "SLA449", "SLA451" >>

Activities == { ALL_ACTIVITIES[i] : i \in 1..Len(ALL_ACTIVITIES) }
Rooms == { ALL_ROOMS[i] : i \in 1..Len(ALL_ROOMS) }
TimeSlots == { ALL_TIME_SLOTS[i] : i \in 1..Len(ALL_TIME_SLOTS) }
Facilitators == { ALL_FACILITATORS[i] : i \in 1..Len(ALL_FACILITATORS) }

ACTIVITY_DEFINITIONS ==
    [ a \in Activities |->
        CASE a \in {"SLA101A", "SLA191B"} ->
               [ expected_enrollment |-> 40,
                 preferred_facilitators |-> {"Glen", "Lock", "Banks"},
                 acceptable_facilitators |-> {"Numen", "Richards", "Shaw", "Singer"} ]
          [] a = "SLA101B" ->
               [ expected_enrollment |-> 35,
                 preferred_facilitators |-> {"Glen", "Lock", "Banks"},
                 acceptable_facilitators |-> {"Numen", "Richards", "Shaw", "Singer"} ]
          [] a = "SLA191A" ->
               [ expected_enrollment |-> 45,
                 preferred_facilitators |-> {"Glen", "Lock", "Banks"},
                 acceptable_facilitators |-> {"Numen", "Richards", "Shaw", "Singer"} ]
          [] a = "SLA201" ->
               [ expected_enrollment |-> 60,
                 preferred_facilitators |-> {"Glen", "Banks", "Zeldin", "Lock", "Singer"},
                 acceptable_facilitators |-> {"Richards", "Uther", "Shaw"} ]
          [] a = "SLA291" ->
               [ expected_enrollment |-> 50,
                 preferred_facilitators |-> {"Glen", "Banks", "Zeldin", "Lock", "Singer"},
                 acceptable_facilitators |-> {"Richards", "Uther", "Shaw"} ]
          [] a = "SLA303" ->
               [ expected_enrollment |-> 25,
                 preferred_facilitators |-> {"Glen", "Zeldin"},
                 acceptable_facilitators |-> {"Banks"} ]
          [] a = "SLA304" ->
               [ expected_enrollment |-> 20,
                 preferred_facilitators |-> {"Singer", "Uther"},
                 acceptable_facilitators |-> {"Richards"} ]
          [] a = "SLA394" ->
               [ expected_enrollment |-> 15,
                 preferred_facilitators |-> {"Tyler", "Singer"},
                 acceptable_facilitators |-> {"Richards", "Zeldin"} ]
          [] a = "SLA449" ->
               [ expected_enrollment |-> 30,
                 preferred_facilitators |-> {"Tyler", "Zeldin", "Uther"},
                 acceptable_facilitators |-> {"Zeldin", "Shaw"} ]
          [] a = "SLA451" ->
               [ expected_enrollment |-> 90,
                 preferred_facilitators |-> {"Lock", "Banks", "Zeldin"},
                 acceptable_facilitators |-> {"Tyler", "Singer", "Shaw", "Glen"} ] ]

SLA101_SECTIONS == << "SLA101A", "SLA101B" >>
SLA191_SECTIONS == << "SLA191A", "SLA191B" >>

CROSS_SECTION_PAIRS ==
    << << "SLA101A", "SLA191A" >>, << "SLA101A", "SLA191B" >>,
       << "SLA101B", "SLA191A" >>, << "SLA101B", "SLA191B" >> >>

(***************************************************************************)
(* Values                                                                  *)
(***************************************************************************)
\* Python's None in an optional number or map: the empty tuple; a set value
\* v is the one-element tuple << v >>.
None == << >>
Some(v) == << v >>
IsSet(x) == x # None
Val(x) == x[1]

\* An unset field of an ActivityAssignment (room: str = None); "not field"
\* is true of it.
NoField == ""

Abs(x) == IF x < 0 THEN -x ELSE x

\* Exact rationals [num, den] with den > 0.
Rat(n, d) == [ num |-> n, den |-> d ]
RatLess(p, q) == p.num * q.den < q.num * p.den
RatEq(p, q) == p.num * q.den = q.num * p.den
RatLeq(p, q) == p.num * q.den <= q.num * p.den
RatHalf(p) == Rat(p.num, p.den * 2)

(***************************************************************************)
(* Schedule model (gen/models.py)                                          *)
(***************************************************************************)
\* ActivityAssignment(room, time, facilitator), a new object ref.
ActivityAssignment(ref, room, time, facilitator) ==
    [ ref |-> ref, room |-> room, time |-> time, facilitator |-> facilitator ]

\* Schedule(assignments_dict): both caches start unset; the dict that is
\* passed in is kept, not copied.
Schedule(ref, assignments_dict) ==
    [ ref |-> ref, assignments |-> assignments_dict,
      fitness |-> None, violations |-> None ]

\* The (room, time, facilitator) triple of an assignment, its value without
\* its identity.
Triple(assignment) ==
    << assignment.room, assignment.time, assignment.facilitator >>

\* The values of a schedule's assignments in dict order.  Every assignment
\* dict of a run is built in catalog order (generate_random_schedule,
\* both crossovers, create_copy).
AssignmentValues(schedule) ==
    [ i \in 1..Len(ALL_ACTIVITIES) |-> Triple(schedule.assignments[ALL_ACTIVITIES[i]]) ]

(***************************************************************************)
(* Fitness evaluator (gen/fitness_evaluator.py)                            *)
(***************************************************************************)
IndexOf(seq, x) == CHOOSE i \in 1..Len(seq) : seq[i] = x

\* self._time_slot_indices: the position of each time slot, from 0.
time_slot_indices ==
    [ t \in TimeSlots |-> IndexOf(ALL_TIME_SLOTS, t) - 1 ]

\* self._time_slot_indices.get(time_slot): None for an unknown slot.
TimeSlotIndex(time_slot) ==
    IF time_slot \in TimeSlots THEN Some(time_slot_indices[time_slot]) ELSE None

calculate_hour_difference(time_slot_1, time_slot_2) ==
    LET idx1 == TimeSlotIndex(time_slot_1)
        idx2 == TimeSlotIndex(time_slot_2)
    IN  IF idx1 = None \/ idx2 = None THEN 0 ELSE Abs(Val(idx1) - Val(idx2))

\* room_name.startswith("Beach") or room_name.startswith("Roman"), on the
\* room names of the catalog.
is_room_in_beach_or_roman(room_name) ==
    IF room_name = NoField THEN FALSE
    ELSE room_name \in {"Beach 201", "Beach 301", "Roman 201", "Roman 216"}

\* ROOMS_WITH_CAPACITIES.get(room_name, 0)
CapacityOf(room_name) ==
    IF room_name \in Rooms THEN ROOMS_WITH_CAPACITIES[room_name] ELSE 0

evaluate_room_size(activity_name, room_name) ==
    IF room_name = NoField \/ activity_name \notin Activities THEN 0
    ELSE LET expected == ACTIVITY_DEFINITIONS[activity_name].expected_enrollment
             capacity == CapacityOf(room_name)
         IN  IF capacity < expected THEN -10
             ELSE IF capacity > 3 * expected THEN -8
             ELSE IF 2 * capacity > 3 * expected THEN -4
             ELSE 6

evaluate_facilitator_preference(activity_name, facilitator) ==
    IF facilitator = NoField \/ activity_name \notin Activities THEN 0
    ELSE LET activity_info == ACTIVITY_DEFINITIONS[activity_name]
         IN  IF facilitator \in activity_info.preferred_facilitators THEN 10
             ELSE IF facilitator \in activity_info.acceptable_facilitators THEN 4
             ELSE -2

evaluate_section_spacing(section_1, section_2, assignments) ==
    LET assign_1 == assignments[section_1]
        assign_2 == assignments[section_2]
    IN  IF assign_1.time = NoField \/ assign_2.time = NoField THEN 0
        ELSE IF assign_1.time = assign_2.time THEN -10
        ELSE IF calculate_hour_difference(assign_1.time, assign_2.time) > 4 THEN 10
        ELSE 0

\* A pair score whose building check is made for every pair that is not in
\* the same slot, whatever the hour distance.
CrossSectionMismatchAtAnyDistance(section_101, section_191, assignments) ==
    LET assign_101 == assignments[section_101]
        assign_191 == assignments[section_191]
        hour_diff == calculate_hour_difference(assign_101.time, assign_191.time)
        mismatch_penalty ==
            IF is_room_in_beach_or_roman(assign_101.room)
                 # is_room_in_beach_or_roman(assign_191.room)
            THEN 8 ELSE 0
    IN  IF assign_101.time = NoField \/ assign_191.time = NoField THEN 0
        ELSE IF assign_101.time = assign_191.time THEN -5
        ELSE IF hour_diff = 1 THEN 10 - mismatch_penalty
        ELSE IF hour_diff = 2 THEN 5 - mismatch_penalty
        ELSE 0 - mismatch_penalty

evaluate_cross_section_interaction(section_101, section_191, assignments) ==
    LET assign_101 == assignments[section_101]
        assign_191 == assignments[section_191]
        hour_diff == calculate_hour_difference(assign_101.time, assign_191.time)
    IN  IF assign_101.time = NoField \/ assign_191.time = NoField THEN 0
        ELSE IF assign_101.time = assign_191.time THEN -5
        ELSE IF hour_diff = 1
             THEN IF is_room_in_beach_or_roman(assign_101.room)
                     # is_room_in_beach_or_roman(assign_191.room)
                  THEN 10 - 8 ELSE 10
        ELSE IF hour_diff = 2 THEN 5
        ELSE 0

\* A usage count keyed by the room alone, whatever the time slot.
RoomUsage(assignments, room, time) ==
    Cardinality({ a \in DOMAIN assignments :
                    /\ assignments[a].room # NoField /\ assignments[a].time # NoField
                    /\ assignments[a].room = room })

\* The three usage tables of the first pass, read at one key.
RoomTimeUsage(assignments, room, time) ==
    Cardinality({ a \in DOMAIN assignments :
                    /\ assignments[a].room # NoField /\ assignments[a].time # NoField
                    /\ assignments[a].room = room /\ assignments[a].time = time })

FacilitatorTimeUsage(assignments, facilitator, time) ==
    Cardinality({ a \in DOMAIN assignments :
                    /\ assignments[a].facilitator # NoField /\ assignments[a].time # NoField
                    /\ assignments[a].facilitator = facilitator
                    /\ assignments[a].time = time })

FacilitatorTotalLoad(assignments, facilitator) ==
    Cardinality({ a \in DOMAIN assignments :
                    /\ assignments[a].facilitator # NoField
                    /\ assignments[a].facilitator = facilitator })

\* The score of one activity with the underload penalty for every
\* facilitator alike, Tyler included.
ActivityScoreWithoutTylerRule(assignments, activity_name) ==
    LET assignment == assignments[activity_name]
        room_term ==
            IF assignment.room # NoField /\ assignment.time # NoField
               /\ RoomTimeUsage(assignments, assignment.room, assignment.time) > 1
            THEN -10 ELSE 0
        concurrent_count ==
            FacilitatorTimeUsage(assignments, assignment.facilitator, assignment.time)
        same_time_term ==
            IF assignment.facilitator # NoField /\ assignment.time # NoField
            THEN IF concurrent_count = 1 THEN 4
                 ELSE IF concurrent_count > 1 THEN -4 ELSE 0
            ELSE 0
        total_load == FacilitatorTotalLoad(assignments, assignment.facilitator)
        load_term ==
            IF assignment.facilitator = NoField THEN 0
            ELSE IF total_load > 4 THEN -10
            ELSE IF total_load < 3 THEN -8
            ELSE 0
    IN  evaluate_room_size(activity_name, assignment.room)
        + evaluate_facilitator_preference(activity_name, assignment.facilitator)
        + room_term + same_time_term + load_term

\* The second pass: the score of one activity.
ActivityScore(assignments, activity_name) ==
    LET assignment == assignments[activity_name]
        room_term ==
            IF assignment.room # NoField /\ assignment.time # NoField
               /\ RoomTimeUsage(assignments, assignment.room, assignment.time) > 1
            THEN -10 ELSE 0
        concurrent_count ==
            FacilitatorTimeUsage(assignments, assignment.facilitator, assignment.time)
        same_time_term ==
            IF assignment.facilitator # NoField /\ assignment.time # NoField
            THEN IF concurrent_count = 1 THEN 4
                 ELSE IF concurrent_count > 1 THEN -4 ELSE 0
            ELSE 0
        total_load == FacilitatorTotalLoad(assignments, assignment.facilitator)
        load_term ==
            IF assignment.facilitator = NoField THEN 0
            ELSE IF total_load > 4 THEN -10
            ELSE IF total_load < 3
                 THEN IF assignment.facilitator = "Tyler"
                      THEN IF total_load >= 2 THEN -8 ELSE 0
                      ELSE -8
            ELSE 0
    IN  evaluate_room_size(activity_name, assignment.room)
        + evaluate_facilitator_preference(activity_name, assignment.facilitator)
        + room_term + same_time_term + load_term

RECURSIVE SumActivityScores(_, _)
\* The second pass over the first n activities of the catalog.
SumActivityScores(assignments, n) ==
    IF n = 0 THEN 0
    ELSE SumActivityScores(assignments, n - 1)
           + ActivityScore(assignments, ALL_ACTIVITIES[n])

RECURSIVE SumCrossSectionScores(_, _)
\* The loop over the first n pairs of CROSS_SECTION_PAIRS.
SumCrossSectionScores(assignments, n) ==
    IF n = 0 THEN 0
    ELSE SumCrossSectionScores(assignments, n - 1)
           + evaluate_cross_section_interaction(
                 CROSS_SECTION_PAIRS[n][1], CROSS_SECTION_PAIRS[n][2], assignments)

\* The body of calculate_schedule_fitness after the cache lookup: the total
\* score of an assignment dict.
ComputeFitness(assignments) ==
    SumActivityScores(assignments, Len(ALL_ACTIVITIES))
    + evaluate_section_spacing(SLA101_SECTIONS[1], SLA101_SECTIONS[2], assignments)
    + evaluate_section_spacing(SLA191_SECTIONS[1], SLA191_SECTIONS[2], assignments)
    + SumCrossSectionScores(assignments, Len(CROSS_SECTION_PAIRS))

\* The violation map of calculate_constraint_violations: its fixed key set.
ViolationKinds ==
    { "room_conflicts", "room_too_small", "room_too_big_15", "room_too_big_30",
      "facilitator_overload", "facilitator_underload",
      "facilitator_same_time_conflict", "sla101_same_time", "sla191_same_time",
      "sla101_191_same_time", "sla101_191_building_mismatch",
      "sla101_191_one_hour_gap", "sla101_191_consecutive_pair" }

RECURSIVE SumSet(_, _)
\* The sum of F[x] for x in S.
SumSet(F, S) ==
    IF S = {} THEN 0
    ELSE CHOOSE total \in
           { F[x] + SumSet(F, S \ {x}) : x \in { CHOOSE y \in S : TRUE } } : TRUE

\* The keys of the three count tables of the first pass.
RoomTimeKeys(assignments) ==
    { << assignments[a].room, assignments[a].time >> :
        a \in { b \in DOMAIN assignments :
                  assignments[b].room # NoField /\ assignments[b].time # NoField } }

FacilitatorTimeKeys(assignments) ==
    { << assignments[a].facilitator, assignments[a].time >> :
        a \in { b \in DOMAIN assignments :
                  assignments[b].facilitator # NoField /\ assignments[b].time # NoField } }

FacilitatorKeys(assignments) ==
    { assignments[a].facilitator :
        a \in { b \in DOMAIN assignments : assignments[b].facilitator # NoField } }

\* The room-size branch an activity falls in (first pass of the violation
\* count): "small", "big_30", "big_15" or "ok".
RoomSizeViolation(activity_name, room_name) ==
    IF activity_name \notin Activities \/ room_name = NoField THEN "ok"
    ELSE LET expected == ACTIVITY_DEFINITIONS[activity_name].expected_enrollment
             capacity == CapacityOf(room_name)
         IN  IF capacity < expected THEN "small"
             ELSE IF capacity > 0 /\ expected > 0
                  THEN IF capacity > 3 * expected THEN "big_30"
                       ELSE IF 2 * capacity > 3 * expected THEN "big_15"
                       ELSE "ok"
             ELSE "ok"

\* The branch a cross-section pair falls in (third pass): "skip",
\* "same_time", "consecutive", "consecutive_mismatch", "one_hour_gap", "none".
CrossPairViolation(section_101, section_191, assignments) ==
    LET assign_101 == assignments[section_101]
        assign_191 == assignments[section_191]
        hour_diff == calculate_hour_difference(assign_101.time, assign_191.time)
    IN  IF assign_101.time = NoField \/ assign_191.time = NoField THEN "skip"
        ELSE IF assign_101.time = assign_191.time THEN "same_time"
        ELSE IF hour_diff = 1
             THEN IF /\ assign_101.room # NoField /\ assign_191.room # NoField
                     /\ is_room_in_beach_or_roman(assign_101.room)
                        # is_room_in_beach_or_roman(assign_191.room)
                  THEN "consecutive_mismatch" ELSE "consecutive"
        ELSE IF hour_diff = 2 THEN "one_hour_gap"
        ELSE "none"

\* The map of calculate_constraint_violations from the tables of its
\* passes: the excess of each (room, time) and (facilitator, time) key, the
\* room-size branch of each activity, the branch of each cross-section pair.
ViolationMap(assignments, room_time_excess, facilitator_time_excess, size, cross) ==
    LET CrossCount(kinds) ==
            Cardinality({ i \in 1..Len(CROSS_SECTION_PAIRS) : cross[i] \in kinds })
        SameTime(sections) ==
            IF /\ assignments[sections[1]].time # NoField
               /\ assignments[sections[2]].time # NoField
               /\ assignments[sections[1]].time = assignments[sections[2]].time
            THEN 1 ELSE 0
    IN  [ room_conflicts |-> SumSet(room_time_excess, DOMAIN room_time_excess),
          room_too_small |-> Cardinality({ a \in DOMAIN assignments : size[a] = "small" }),
          room_too_big_15 |-> Cardinality({ a \in DOMAIN assignments : size[a] = "big_15" }),
          room_too_big_30 |-> Cardinality({ a \in DOMAIN assignments : size[a] = "big_30" }),
          facilitator_overload |->
              Cardinality({ f \in FacilitatorKeys(assignments) :
                              FacilitatorTotalLoad(assignments, f) > 4 }),
          facilitator_underload |->
              Cardinality({ f \in FacilitatorKeys(assignments) :
                              /\ ~(FacilitatorTotalLoad(assignments, f) > 4)
                              /\ FacilitatorTotalLoad(assignments, f) < 3
                              /\ (f = "Tyler" =>
                                    FacilitatorTotalLoad(assignments, f) >= 2) }),
          facilitator_same_time_conflict |->
              SumSet(facilitator_time_excess, DOMAIN facilitator_time_excess),
          sla101_same_time |-> SameTime(SLA101_SECTIONS),
          sla191_same_time |-> SameTime(SLA191_SECTIONS),
          sla101_191_same_time |-> CrossCount({"same_time"}),
          sla101_191_building_mismatch |-> CrossCount({"consecutive_mismatch"}),
          sla101_191_one_hour_gap |-> CrossCount({"one_hour_gap"}),
          sla101_191_consecutive_pair |->
              CrossCount({"consecutive", "consecutive_mismatch"}) ]

\* A violation map that holds a key only once its rule has fired.
SparseViolationCounts(assignments) ==
    CHOOSE sparse \in
      { [ k \in { j \in DOMAIN full : full[j] > 0 } |-> full[k] ] :
          full \in
            { ViolationMap(
                assignments,
                [ k \in RoomTimeKeys(assignments) |->
                    IF RoomTimeUsage(assignments, k[1], k[2]) > 1
                    THEN RoomTimeUsage(assignments, k[1], k[2]) - 1 ELSE 0 ],
                [ k \in FacilitatorTimeKeys(assignments) |->
                    IF FacilitatorTimeUsage(assignments, k[1], k[2]) > 1
                    THEN FacilitatorTimeUsage(assignments, k[1], k[2]) - 1 ELSE 0 ],
                [ a \in DOMAIN assignments |-> RoomSizeViolation(a, assignments[a].room) ],
                [ i \in 1..Len(CROSS_SECTION_PAIRS) |->
                    CrossPairViolation(CROSS_SECTION_PAIRS[i][1],
                                       CROSS_SECTION_PAIRS[i][2], assignments) ]) } } :
        TRUE

\* The map calculate_constraint_violations returns (and stores in
\* schedule.violations).
ViolationCounts(assignments) ==
    CHOOSE violations \in
      { ViolationMap(assignments, tables[1], tables[2], tables[3], tables[4]) :
          tables \in
            { << [ k \in RoomTimeKeys(assignments) |->
                     IF RoomTimeUsage(assignments, k[1], k[2]) > 1
                     THEN RoomTimeUsage(assignments, k[1], k[2]) - 1 ELSE 0 ],
                 [ k \in FacilitatorTimeKeys(assignments) |->
                     IF FacilitatorTimeUsage(assignments, k[1], k[2]) > 1
                     THEN FacilitatorTimeUsage(assignments, k[1], k[2]) - 1 ELSE 0 ],
                 [ a \in DOMAIN assignments |->
                     RoomSizeViolation(a, assignments[a].room) ],
                 [ i \in 1..Len(CROSS_SECTION_PAIRS) |->
                     CrossPairViolation(CROSS_SECTION_PAIRS[i][1],
                                        CROSS_SECTION_PAIRS[i][2], assignments) ] >> } } :
        TRUE

\* A cache key built from the rooms and times only.
RoomTimeCacheKey(schedule) ==
    [ i \in 1..Len(ALL_ACTIVITIES) |->
        << schedule.assignments[ALL_ACTIVITIES[i]].room,
           schedule.assignments[ALL_ACTIVITIES[i]].time >> ]

\* cache_key = hash(str([(a.room, a.time, a.facilitator) for a in
\* schedule.assignments.values()])): the key is the list of triples in dict
\* order, without the activity names.  str() of that list is one-to-one on
\* catalog values, and hash() is taken to be collision-free on them.
CacheKey(schedule) == AssignmentValues(schedule)

\* calculate_schedule_fitness(schedule) against the evaluator's cache:
\* [score, cache], the returned score and the cache afterwards.  The caller
\* stores score in schedule.fitness (lines 188 and 279).
calculate_schedule_fitness(cache, schedule) ==
    IF CacheKey(schedule) \in DOMAIN cache
    THEN [ score |-> cache[CacheKey(schedule)], cache |-> cache ]
    ELSE CHOOSE stored \in
           { [ score |-> total_score,
               cache |-> [ k \in DOMAIN cache \cup { CacheKey(schedule) } |->
                             IF k = CacheKey(schedule) THEN total_score
                             ELSE cache[k] ] ] :
             total_score \in { ComputeFitness(schedule.assignments) } } : TRUE

\* calculate_constraint_violations(schedule): the map, which the caller
\* stores in schedule.violations (line 418).
calculate_constraint_violations(schedule) == ViolationCounts(schedule.assignments)

(***************************************************************************)
(* Heap: writes through object references                                  *)
(***************************************************************************)
\* schedule.fitness = value on the Schedule object ref, seen by every entry
\* of the list that holds that object.
HeapSetFitness(schedules, ref, value) ==
    [ i \in DOMAIN schedules |->
        IF schedules[i].ref = ref
        THEN [ schedules[i] EXCEPT !.fitness = value ] ELSE schedules[i] ]

\* schedule.violations = value on the Schedule object ref.
HeapSetViolations(schedules, ref, value) ==
    [ i \in DOMAIN schedules |->
        IF schedules[i].ref = ref
        THEN [ schedules[i] EXCEPT !.violations = value ] ELSE schedules[i] ]

\* One assignment after the field writes: writes is a set of
\* [ref, field, value], at most one per (ref, field).
WriteAssignment(assignment, writes) ==
    LET Mine(field) == { w \in writes : w.ref = assignment.ref /\ w.field = field }
        New(field, old) ==
            IF Mine(field) = {} THEN old ELSE (CHOOSE w \in Mine(field) : TRUE).value
    IN  [ ref |-> assignment.ref,
          room |-> New("room", assignment.room),
          time |-> New("time", assignment.time),
          facilitator |-> New("facilitator", assignment.facilitator) ]

\* assignment.<field> = value on ActivityAssignment objects, seen by every
\* schedule of the list that holds one of the written objects.
HeapWriteFields(schedules, writes) ==
    IF writes = {} THEN schedules
    ELSE
    [ i \in DOMAIN schedules |->
        [ schedules[i] EXCEPT !.assignments =
            [ a \in DOMAIN @ |-> WriteAssignment(@[a], writes) ] ] ]

(***************************************************************************)
(* Schedule.create_copy, ActivityAssignment.copy (gen/models.py)           *)
(***************************************************************************)
\* The position of an activity in the catalog order, from 1.
ActivityPositions == [ a \in Activities |-> IndexOf(ALL_ACTIVITIES, a) ]
ActivityIndex(activity_name) == ActivityPositions[activity_name]

\* A copy that leaves the facilitator of the new object unset.
CopyWithoutFacilitator(assignment, ref) ==
    ActivityAssignment(ref, assignment.room, assignment.time, NoField)

\* A copy that hands back the assignment object itself.
SameAssignment(assignment, ref) ==
    assignment

\* assignment.copy(): a new object ref with the same three fields.
AssignmentCopy(assignment, ref) ==
    ActivityAssignment(ref, assignment.room, assignment.time, assignment.facilitator)

\* A copy that makes a new Schedule object over the same assignment objects.
ShallowCopy(schedule, ref) ==
    [ Schedule(ref, schedule.assignments) EXCEPT !.fitness = schedule.fitness ]

\* A copy that carries the violations cache of the original as well.
CopyWithViolations(schedule, ref) ==
    LET copied_assignments ==
            [ a \in DOMAIN schedule.assignments |->
                AssignmentCopy(schedule.assignments[a], ref + ActivityIndex(a)) ]
    IN  [ Schedule(ref, copied_assignments) EXCEPT !.fitness = schedule.fitness,
                                                   !.violations = schedule.violations ]

\* schedule.create_copy(): a new Schedule object ref over copied
\* assignments (objects ref + 1 .. ref + 11); the fitness cache is carried,
\* the violations cache is not.
create_copy(schedule, ref) ==
    LET copied_assignments ==
            [ a \in DOMAIN schedule.assignments |->
                AssignmentCopy(schedule.assignments[a], ref + ActivityIndex(a)) ]
    IN  [ Schedule(ref, copied_assignments) EXCEPT !.fitness = schedule.fitness ]

\* The number of objects one schedule takes: itself and its assignments.
ObjectsPerSchedule == Len(ALL_ACTIVITIES) + 1

(***************************************************************************)
(* Genetic operators (gen/genetic_operators.py)                            *)
(***************************************************************************)
\* perform_single_point_crossover with random.randint(0, len - 1) =
\* crossover_point; enumerate() counts from 0.
perform_single_point_crossover(parent_1, parent_2, crossover_point, ref) ==
    LET child_assignments ==
            [ a \in Activities |->
                IF ActivityIndex(a) - 1 <= crossover_point
                THEN AssignmentCopy(parent_1.assignments[a], ref + ActivityIndex(a))
                ELSE AssignmentCopy(parent_2.assignments[a], ref + ActivityIndex(a)) ]
    IN  Schedule(ref, child_assignments)

\* A uniform crossover that starts from an empty schedule and fills in only
\* the activities drawn for the second parent.
UniformCrossoverFromSecondOnly(parent_1, parent_2, from_second, ref) ==
    LET child_assignments ==
            [ a \in Activities |->
                IF a \in from_second
                THEN AssignmentCopy(parent_2.assignments[a], ref + ActivityIndex(a))
                ELSE ActivityAssignment(ref + ActivityIndex(a),
                                        NoField, NoField, NoField) ]
    IN  Schedule(ref, child_assignments)

\* perform_uniform_crossover; from_second is the set of activities whose
\* draw random.random() < crossover_probability came out true.
perform_uniform_crossover(parent_1, parent_2, from_second, ref) ==
    LET child_assignments ==
            [ a \in Activities |->
                IF a \in from_second
                THEN AssignmentCopy(parent_2.assignments[a], ref + ActivityIndex(a))
                ELSE AssignmentCopy(parent_1.assignments[a], ref + ActivityIndex(a)) ]
    IN  Schedule(ref, child_assignments)

\* Field writes in which one draw that came out replaces the fields of the
\* assignment that have no draw of their own as well.
WholeAssignmentWrites(schedule, plan) ==
    { [ ref |-> schedule.assignments[m.activity].ref,
        field |-> m.field, value |-> m.value ] : m \in plan }
    \cup
    UNION { { [ ref |-> schedule.assignments[m.activity].ref, field |-> f.field,
                value |-> f.value ] :
              f \in { g \in { [ field |-> "room", value |-> ALL_ROOMS[1] ],
                              [ field |-> "time", value |-> ALL_TIME_SLOTS[1] ],
                              [ field |-> "facilitator", value |-> ALL_FACILITATORS[1] ] } :
                      \A n \in plan : ~(n.activity = m.activity /\ n.field = g.field) } } :
            m \in plan }

\* The field writes of apply_mutation(schedule, p) under a plan: plan is the
\* set of [activity, field, value] whose draw random.random() < p came out
\* true, value being the random.choice of the field's catalog domain.
MutationWrites(schedule, plan) ==
    { [ ref |-> schedule.assignments[m.activity].ref,
        field |-> m.field, value |-> m.value ] : m \in plan }

\* apply_mutation(schedule, p) on the lists that hold objects: the field
\* writes, then schedule.fitness = None (line 93).
apply_mutation(schedules, schedule, plan) ==
    HeapSetFitness(HeapWriteFields(schedules, MutationWrites(schedule, plan)),
                   schedule.ref, None)

\* Whether the draws of a plan can come out under probability p:
\* random.random() is in [0, 1), so a field is replaced only when p > 0 and
\* is kept only when p < 1.
PlanPossible(plan, p) ==
    /\ \A m \in plan :
         /\ m.activity \in Activities
         /\ \/ m.field = "room" /\ m.value \in Rooms
            \/ m.field = "time" /\ m.value \in TimeSlots
            \/ m.field = "facilitator" /\ m.value \in Facilitators
    /\ \A m1, m2 \in plan :
         (m1.activity = m2.activity /\ m1.field = m2.field) => m1 = m2
    /\ plan # {} => RatLess(Rat(0, 1), p)
    /\ Cardinality(plan) < 3 * Len(ALL_ACTIVITIES) => RatLess(p, Rat(1, 1))

(***************************************************************************)
(* Selection (gen/selection_methods.py)                                    *)
(***************************************************************************)
\* seq[:k] of Python.
Slice(seq, k) ==
    LET n == IF k >= Len(seq) THEN Len(seq)
             ELSE IF k >= 0 THEN k
             ELSE IF Len(seq) + k > 0 THEN Len(seq) + k ELSE 0
    IN  SubSeq(seq, 1, n)

\* The indices random.choices(population, weights, k=1) can return under
\* the weights of calculate_softmax_probabilities: exp(score - max_score)
\* is positive for every score of the evaluator's range, so every index.
Selectable(population, fitness_scores) == 1..Len(population)

\* A ranking in ascending order of fitness.
SortedByFitnessAscending(population, fitness_scores) ==
    LET n == IF Len(population) < Len(fitness_scores)
             THEN Len(population) ELSE Len(fitness_scores)
        Rank(i) == Cardinality({ j \in 1..n : fitness_scores[j] < fitness_scores[i] })
                   + Cardinality({ j \in 1..n : j < i /\ fitness_scores[j] = fitness_scores[i] })
                   + 1
    IN  [ r \in 1..n |-> CHOOSE i \in 1..n : Rank(i) = r ]

\* The order of schedule_fitness_pairs.sort(key = fitness, reverse = True):
\* the i-th element is the index of the i-th pair; the sort is stable, so
\* equal scores keep their population order.  zip() stops at the shorter list.
SortedByFitness(population, fitness_scores) ==
    LET n == IF Len(population) < Len(fitness_scores)
             THEN Len(population) ELSE Len(fitness_scores)
        Rank(i) == Cardinality({ j \in 1..n : fitness_scores[j] > fitness_scores[i] })
                   + Cardinality({ j \in 1..n : j < i /\ fitness_scores[j] = fitness_scores[i] })
                   + 1
    IN  [ r \in 1..n |-> CHOOSE i \in 1..n : Rank(i) = r ]

\* select_best_schedules: copies of the top number_to_select schedules; the
\* i-th copy takes the objects from ref + (i - 1) * ObjectsPerSchedule.
select_best_schedules(population, fitness_scores, number_to_select, ref) ==
    LET order == Slice(SortedByFitness(population, fitness_scores), number_to_select)
    IN  [ i \in 1..Len(order) |->
            create_copy(population[order[i]], ref + (i - 1) * ObjectsPerSchedule) ]

(***************************************************************************)
(* Bounds of the model and the inputs drawn within them                    *)
(***************************************************************************)
\* The floor of create_initial_population, 250 in the source (population_
\* manager.py line 53), scaled down so that a whole population is a state.
MinimumPopulationSize == 2

\* The largest maximum_generations of the runs with a free random source.
ShortRun == 3

\* The maximum_generations of the runs that reach the adaptation interval.
LongRun == 22

\* The number of schedules generate_random_schedule draws from.
NumSamples == 2

\* The number of field replacements the random draws of apply_mutation
\* make in one run with a free random source.
MaxMutations == 1

\* The largest number of activities that a checked uniform crossover takes
\* from the one parent while it takes the others from the other parent.
MaxFromSecond == 2

\* "generation_number % 20 == 0" (algorithm_engine.py line 145).
AdaptationInterval == 20

\* A schedule of the catalog domains, as (room, time, facilitator) per
\* activity.
BaseSchedule ==
    [ a \in Activities |->
        CASE a = "SLA101A" -> << "Roman 201", "10 AM", "Glen" >>
          [] a = "SLA101B" -> << "Roman 201", "3 PM", "Lock" >>
          [] a = "SLA191A" -> << "Loft 310", "11 AM", "Glen" >>
          [] a = "SLA191B" -> << "Loft 310", "2 PM", "Lock" >>
          [] a = "SLA201"  -> << "Roman 216", "12 PM", "Glen" >>
          [] a = "SLA291"  -> << "Loft 206", "1 PM", "Lock" >>
          [] a = "SLA303"  -> << "Slater 003", "10 AM", "Zeldin" >>
          [] a = "SLA304"  -> << "Beach 301", "11 AM", "Uther" >>
          [] a = "SLA394"  -> << "Beach 201", "12 PM", "Tyler" >>
          [] a = "SLA449"  -> << "Roman 201", "1 PM", "Zeldin" >>
          [] a = "SLA451"  -> << "Frank 119", "2 PM", "Zeldin" >> ]

\* A schedule with one field replaced: edit is [activity, field, value].
WithField(values, edit) ==
    [ values EXCEPT ![edit.activity] =
        CASE edit.field = "room" -> << edit.value, @[2], @[3] >>
          [] edit.field = "time" -> << @[1], edit.value, @[3] >>
          [] edit.field = "facilitator" -> << @[1], @[2], edit.value >> ]

\* The schedules generate_random_schedule draws from are the base schedule
\* with one of these replacements each.
SampleEdits ==
    << [ activity |-> "SLA101A", field |-> "room", value |-> "Roman 201" ],
       [ activity |-> "SLA101A", field |-> "room", value |-> "Beach 201" ],
       [ activity |-> "SLA101A", field |-> "room", value |-> "Frank 119" ],
       [ activity |-> "SLA101A", field |-> "room", value |-> "Loft 206" ] >>

\* The i-th schedule generate_random_schedule draws from.
SampleSchedule(i) == WithField(BaseSchedule, SampleEdits[i])

\* The field replacements the random draws of apply_mutation choose from.
MutationDraws ==
    { [ activity |-> "SLA191A", field |-> "time", value |-> "1 PM" ],
      [ activity |-> "SLA101B", field |-> "room", value |-> "Loft 310" ],
      [ activity |-> "SLA101B", field |-> "time", value |-> "10 AM" ] }

\* The call arguments of run_optimization.  Runs with a free random source:
\* every crossover method, a population below and at the floor, a ceiling
\* of no and of ShortRun generations.
ShortConfigs ==
    [ population_size : { MinimumPopulationSize - 1, MinimumPopulationSize },
      minimum_generations : { 0, ShortRun - 1 },
      maximum_generations : { 0, ShortRun },
      initial_mutation_probability : { Rat(1, 100) },
      crossover_method : { "single_point", "uniform", "two_point" },
      elitism_count : { MinimumPopulationSize - 1 },
      use_adaptive_mutation : { TRUE } ]

\* Runs with a free random source over the elitism counts around the
\* population size and below zero.
ElitismConfigs ==
    [ population_size : { MinimumPopulationSize },
      minimum_generations : { 0 },
      maximum_generations : { ShortRun },
      initial_mutation_probability : { Rat(1, 100) },
      crossover_method : { "single_point" },
      elitism_count : { -1, 0, MinimumPopulationSize, MinimumPopulationSize + 1 },
      use_adaptive_mutation : { TRUE } ]

\* Runs past the adaptation interval, without mutation draws.
LongConfigs ==
    [ population_size : { MinimumPopulationSize },
      minimum_generations : { AdaptationInterval + 1, LongRun },
      maximum_generations : { LongRun },
      initial_mutation_probability : { Rat(1, 100) },
      crossover_method : { "single_point" },
      elitism_count : { MinimumPopulationSize - 1 },
      use_adaptive_mutation : BOOLEAN ]

Configs == ShortConfigs \cup ElitismConfigs \cup LongConfigs

(***************************************************************************)
(* Population initializer (gen/population_manager.py)                      *)
(***************************************************************************)
\* generate_random_schedule(): a new Schedule object ref whose assignments
\* (objects ref + 1 .. ref + 11) hold the drawn values.
generate_random_schedule(values, ref) ==
    Schedule(ref,
             [ a \in Activities |->
                 ActivityAssignment(ref + ActivityIndex(a),
                                    values[a][1], values[a][2], values[a][3]) ])

\* create_initial_population(population_size) past its size check: draws[i]
\* is the sample the i-th schedule is drawn as.
create_initial_population(draws, ref) ==
    [ i \in DOMAIN draws |->
        generate_random_schedule(SampleSchedule(draws[i]),
                                 ref + (i - 1) * ObjectsPerSchedule) ]

(***************************************************************************)
(* Evolution controller (gen/algorithm_engine.py)                          *)
(***************************************************************************)
RECURSIVE EvaluateFirst(_, _, _)
\* The loop of _evaluate_entire_population over the first n schedules:
\* [fitness_scores, cache].
EvaluateFirst(population, n, cache) ==
    IF n = 0 THEN [ fitness_scores |-> << >>, cache |-> cache ]
    ELSE CHOOSE after \in
           { [ fitness_scores |-> Append(before.fitness_scores, this.score),
               cache |-> this.cache ] :
             << before, this >> \in
               { << b, calculate_schedule_fitness(b.cache, population[n]) >> :
                   b \in { EvaluateFirst(population, n - 1, cache) } } } : TRUE

RECURSIVE SeqSum(_, _)
SeqSum(seq, n) == IF n = 0 THEN 0 ELSE SeqSum(seq, n - 1) + seq[n]

SeqMax(seq) == CHOOSE x \in { seq[i] : i \in DOMAIN seq } :
                 \A i \in DOMAIN seq : seq[i] <= x
SeqMin(seq) == CHOOSE x \in { seq[i] : i \in DOMAIN seq } :
                 \A i \in DOMAIN seq : x <= seq[i]

\* The return value of _evaluate_entire_population for the scores and the
\* cache its loop ended with: the scores, their best, mean and worst, the
\* cache afterwards and the population with every schedule.fitness set.
EvaluationOf(population, fitness_scores, cache) ==
    [ fitness_scores |-> fitness_scores,
      best |-> IF fitness_scores = << >> THEN 0 ELSE SeqMax(fitness_scores),
      average |-> IF fitness_scores = << >> THEN Rat(0, 1)
                  ELSE Rat(SeqSum(fitness_scores, Len(fitness_scores)),
                           Len(fitness_scores)),
      worst |-> IF fitness_scores = << >> THEN 0 ELSE SeqMin(fitness_scores),
      cache |-> cache,
      population |-> [ i \in DOMAIN population |->
                         [ population[i] EXCEPT !.fitness = Some(fitness_scores[i]) ] ] ]

\* _evaluate_entire_population(population)
evaluate_entire_population(population, cache) ==
    CHOOSE evaluation \in
      { EvaluationOf(population, run.fitness_scores, run.cache) :
          run \in { EvaluateFirst(population, Len(population), cache) } } : TRUE

\* improvement_percentage (lines 103-111) for a set previous average:
\* (now - previous) / denominator * 100 as the rational num / den, times
\* 10^9 when times_1e9.  abs(previous) > 1e-9 holds exactly when the
\* previous average, a multiple of 1/20 over the population size, is not 0;
\* otherwise the denominator is 1e-9 and the value is now * 100 / 1e-9,
\* which is (5 * now.num / now.den) * 10^9 for now in twentieths.
ImprovementPercentage(now, previous) ==
    IF previous.num # 0
    THEN [ num |-> 100 * (now.num * previous.den - previous.num * now.den),
           den |-> now.den * Abs(previous.num),
           times_1e9 |-> FALSE ]
    ELSE [ num |-> 5 * now.num, den |-> now.den, times_1e9 |-> TRUE ]

\* improvement < threshold, for a threshold p / q with p, q > 0.
ImprovementLess(improvement, threshold) ==
    IF improvement.times_1e9
    THEN improvement.num * threshold.den
           <= (threshold.num * improvement.den - 1) \div 1000000000
    ELSE RatLess(Rat(improvement.num, improvement.den), threshold)

\* improvement > threshold, for a threshold p / q with p, q > 0.
ImprovementGreater(improvement, threshold) ==
    IF improvement.times_1e9
    THEN improvement.num * threshold.den
           > (threshold.num * improvement.den) \div 1000000000
    ELSE RatLess(threshold, Rat(improvement.num, improvement.den))

\* A termination check without the minimum-generations floor.
TerminateOnPlateauOnly(generation_no, minimum_generations, improvement_percentage) ==
    /\ improvement_percentage # None
    /\ ImprovementLess(Val(improvement_percentage), Rat(1, 1))

\* A termination check with the plateau threshold at 0.1 percent.
TerminateBelowTenth(generation_no, minimum_generations, improvement_percentage) ==
    /\ generation_no + 1 >= minimum_generations
    /\ improvement_percentage # None
    /\ ImprovementLess(Val(improvement_percentage), Rat(1, 10))

\* A termination check that takes an unset improvement for a plateau.
TerminateWhenUnset(generation_no, minimum_generations, improvement_percentage) ==
    /\ generation_no + 1 >= minimum_generations
    /\ \/ improvement_percentage = None
       \/ ImprovementLess(Val(improvement_percentage), Rat(1, 1))

\* should_terminate (lines 131-135).
ShouldTerminate(generation_no, minimum_generations, improvement_percentage) ==
    /\ generation_no + 1 >= minimum_generations
    /\ improvement_percentage # None
    /\ ImprovementLess(Val(improvement_percentage), Rat(1, 1))

\* An adaptive adjustment that does not wait for the adaptation interval.
AdaptedEveryGeneration(rate, use_adaptive_mutation, generation_no, improvement_percentage) ==
    IF /\ use_adaptive_mutation
       /\ generation_no > 0
       /\ improvement_percentage # None
       /\ ImprovementGreater(Val(improvement_percentage), Rat(1, 10))
    THEN RatHalf(rate) ELSE rate

\* The mutation rate after the adaptive adjustment (lines 145-148).
AdaptedMutationRate(rate, use_adaptive_mutation, generation_no, improvement_percentage) ==
    IF /\ use_adaptive_mutation
       /\ generation_no > 0
       /\ generation_no % AdaptationInterval = 0
       /\ improvement_percentage # None
       /\ ImprovementGreater(Val(improvement_percentage), Rat(1, 10))
    THEN RatHalf(rate) ELSE rate

\* number_of_parent_pairs = population_size - elitism_count; range() of a
\* negative number is empty.
NumberOfParentPairs(cfg) ==
    IF cfg.population_size - cfg.elitism_count > 0
    THEN cfg.population_size - cfg.elitism_count ELSE 0

\* A reproduction step whose default branch crosses the parents over in
\* the other order.
CrossoverSwapped(crossover_method, parent_a, parent_b, draw, ref) ==
    IF crossover_method = "uniform"
    THEN perform_uniform_crossover(parent_a, parent_b, draw.from_second, ref)
    ELSE perform_single_point_crossover(parent_b, parent_a, draw.point, ref)

\* The crossover of the reproduction loop (lines 168-171): "uniform" takes
\* the uniform crossover, every other method the single-point one.  draw is
\* the random outcome: [point, from_second].
Crossover(crossover_method, parent_a, parent_b, draw, ref) ==
    IF crossover_method = "uniform"
    THEN perform_uniform_crossover(parent_a, parent_b, draw.from_second, ref)
    ELSE perform_single_point_crossover(parent_a, parent_b, draw.point, ref)

\* The activities on which two schedules hold different triples.
Differing(schedule_1, schedule_2) ==
    { a \in Activities :
        Triple(schedule_1.assignments[a]) # Triple(schedule_2.assignments[a]) }

\* The random outcomes a crossover of two parents can draw: every
\* crossover point, or every set of activities taken from the second
\* parent.  Two sets that differ only on activities where both parents
\* hold the same triple yield the same child, and one of them is drawn.
CrossoverDraws(crossover_method, parent_a, parent_b) ==
    IF crossover_method = "uniform"
    THEN { [ point |-> 0, from_second |-> S ] :
             S \in SUBSET Differing(parent_a, parent_b) }
    ELSE { [ point |-> c, from_second |-> {} ] : c \in 0..(Len(ALL_ACTIVITIES) - 1) }

\* A next generation that is not cut or padded.
ElitesThenOffspring(elite_schedules, offspring, population_size) ==
    elite_schedules \o offspring

\* next_generation (lines 188-196): elites, then offspring, cut or padded
\* to population_size.
NextGeneration(elite_schedules, offspring, population_size) ==
    LET next_generation == elite_schedules \o offspring
    IN  IF Len(next_generation) > population_size
        THEN Slice(next_generation, population_size)
        ELSE IF Len(next_generation) < population_size
        THEN next_generation
               \o Slice(offspring, population_size - Len(next_generation))
        ELSE next_generation

\* The last index of the greatest score.
LastBestIndex(fitness_scores) ==
    CHOOSE i \in DOMAIN fitness_scores :
        /\ \A j \in DOMAIN fitness_scores : fitness_scores[j] <= fitness_scores[i]
        /\ \A j \in DOMAIN fitness_scores :
             fitness_scores[j] = fitness_scores[i] => j <= i

\* max(range(len(population)), key = score): the first index of the
\* greatest score, from 1.
BestScheduleIndex(fitness_scores) ==
    CHOOSE i \in DOMAIN fitness_scores :
        /\ \A j \in DOMAIN fitness_scores : fitness_scores[j] <= fitness_scores[i]
        /\ \A j \in DOMAIN fitness_scores :
             fitness_scores[j] = fitness_scores[i] => i <= j

VARIABLES
    pc,                        \* the position of the call of run_optimization
    config,                    \* the arguments of the call
    current_population,        \* list of Schedule
    current_mutation_rate,
    previous_average_fitness,  \* None or Some(average)
    generation_number,         \* the loop variable of the evolution loop
    current_fitness_scores,    \* the scores of the last evaluation
    parent_combinations,       \* the parent pairs still to be iterated, as
                               \* pairs of positions in current_population
    offspring_schedules,
    generation_history,        \* self.generation_history
    total_generations_run,     \* self.total_generations_run
    final_mutation_rate,       \* self.final_mutation_rate
    fitness_cache,             \* fitness_calculator._fitness_cache
    next_ref,                  \* the next unused object identity
    results,                   \* None or Some(the returned dictionary)
    error,                     \* None or Some(the exception raised)
    mutation_draws_left        \* field replacements the random source may still draw

vars ==
    << pc, config, current_population, current_mutation_rate,
       previous_average_fitness, generation_number, current_fitness_scores,
       parent_combinations, offspring_schedules, generation_history,
       total_generations_run, final_mutation_rate, fitness_cache, next_ref,
       results, error, mutation_draws_left >>

\* A new engine (GeneticAlgorithmEngine.__init__), a new evaluator with an
\* empty cache, and a call of run_optimization about to start.
Init ==
    /\ pc = "start"
    /\ \/ config \in ShortConfigs \cup ElitismConfigs
          /\ mutation_draws_left = MaxMutations
       \/ config \in LongConfigs /\ mutation_draws_left = 0
    /\ current_population = << >>
    /\ current_mutation_rate = Rat(1, 100)
    /\ previous_average_fitness = None
    /\ generation_number = 0
    /\ current_fitness_scores = << >>
    /\ parent_combinations = << >>
    /\ offspring_schedules = << >>
    /\ generation_history = << >>
    /\ total_generations_run = 0
    /\ final_mutation_rate = Rat(1, 100)
    /\ fitness_cache = << >>
    /\ next_ref = 1
    /\ results = None
    /\ error = None

\* Lines 79-86: create_initial_population raises ValueError below the
\* floor, before anything of the engine is reset.
InitializeRejected ==
    /\ pc = "start"
    /\ config.population_size < MinimumPopulationSize
    /\ pc' = "error"
    /\ error' = Some("ValueError")
    /\ UNCHANGED << config, current_population, current_mutation_rate,
                    previous_average_fitness, generation_number,
                    current_fitness_scores, parent_combinations,
                    offspring_schedules, generation_history,
                    total_generations_run, final_mutation_rate, fitness_cache,
                    next_ref, results, mutation_draws_left >>

\* An initialization without the floor of create_initial_population.
InitializeUnchecked ==
    /\ pc = "start"
    /\ \E draws \in [ 1..config.population_size -> 1..NumSamples ] :
         current_population' = create_initial_population(draws, next_ref)
    /\ next_ref' = next_ref + config.population_size * ObjectsPerSchedule
    /\ current_mutation_rate' = config.initial_mutation_probability
    /\ generation_history' = << >>
    /\ total_generations_run' = 0
    /\ previous_average_fitness' = None
    /\ generation_number' = 0
    /\ pc' = "loop"
    /\ UNCHANGED << config, current_fitness_scores, parent_combinations,
                    offspring_schedules, final_mutation_rate, fitness_cache,
                    results, error, mutation_draws_left >>

\* Lines 79-86: the initial population and the reset of the run's state.
Initialize ==
    /\ pc = "start"
    /\ ~(config.population_size < MinimumPopulationSize)
    /\ \E draws \in [ 1..config.population_size -> 1..NumSamples ] :
         current_population' = create_initial_population(draws, next_ref)
    /\ next_ref' = next_ref + config.population_size * ObjectsPerSchedule
    /\ current_mutation_rate' = config.initial_mutation_probability
    /\ generation_history' = << >>
    /\ total_generations_run' = 0
    /\ previous_average_fitness' = None
    /\ generation_number' = 0
    /\ pc' = "loop"
    /\ UNCHANGED << config, current_fitness_scores, parent_combinations,
                    offspring_schedules, final_mutation_rate, fitness_cache,
                    results, error, mutation_draws_left >>

\* Line 91: range(maximum_generations) is exhausted.
LoopExit ==
    /\ pc = "loop"
    /\ ~(generation_number < config.maximum_generations)
    /\ pc' = "final"
    /\ UNCHANGED << config, current_population, current_mutation_rate,
                    previous_average_fitness, generation_number,
                    current_fitness_scores, parent_combinations,
                    offspring_schedules, generation_history,
                    total_generations_run, final_mutation_rate, fitness_cache,
                    next_ref, results, error, mutation_draws_left >>

\* Lines 102-150 for the evaluation of the population and the improvement
\* over the previous generation: the generation record, the termination
\* check and the adaptive mutation adjustment.
RecordGeneration(evaluation, improvement_percentage) ==
    /\ total_generations_run' = generation_number + 1
    /\ current_population' = evaluation.population
    /\ fitness_cache' = evaluation.cache
    /\ current_fitness_scores' = evaluation.fitness_scores
    /\ previous_average_fitness' = Some(evaluation.average)
    /\ generation_history' =
         Append(generation_history,
                [ generation |-> generation_number,
                  best |-> evaluation.best,
                  avg |-> evaluation.average,
                  worst |-> evaluation.worst,
                  improvement |-> improvement_percentage,
                  mutation_rate |-> current_mutation_rate ])
    /\ IF ShouldTerminate(generation_number, config.minimum_generations,
                          improvement_percentage)
       THEN /\ pc' = "final"
            /\ UNCHANGED current_mutation_rate
       ELSE /\ pc' = "select"
            /\ current_mutation_rate' =
                 AdaptedMutationRate(current_mutation_rate,
                                     config.use_adaptive_mutation,
                                     generation_number, improvement_percentage)

\* An improvement that is computed in the first generation too, over a
\* previous average of 0.
ImprovementFromZero(previous, now) ==
    Some(ImprovementPercentage(now, IF previous = None THEN Rat(0, 1)
                                    ELSE Val(previous)))

\* improvement_percentage (lines 103-111): unset in the first generation.
ImprovementOver(previous, now) ==
    IF previous = None THEN None
    ELSE Some(ImprovementPercentage(now, Val(previous)))

RecordEvaluation(evaluation) ==
    RecordGeneration(evaluation,
                     ImprovementOver(previous_average_fitness, evaluation.average))

\* A loop iteration that does not look at maximum_generations.
EvaluateGenerationUnbounded ==
    /\ pc = "loop"
    /\ \E evaluation \in { evaluate_entire_population(current_population,
                                                      fitness_cache) } :
         RecordEvaluation(evaluation)
    /\ UNCHANGED << config, generation_number, parent_combinations,
                    offspring_schedules, final_mutation_rate, next_ref, results,
                    error, mutation_draws_left >>

\* Lines 92-150: one generation's evaluation, record, termination check and
\* adaptive mutation adjustment.
EvaluateGeneration ==
    /\ pc = "loop"
    /\ generation_number < config.maximum_generations
    /\ \E evaluation \in { evaluate_entire_population(current_population,
                                                      fitness_cache) } :
         RecordEvaluation(evaluation)
    /\ UNCHANGED << config, generation_number, parent_combinations,
                    offspring_schedules, final_mutation_rate, next_ref, results,
                    error, mutation_draws_left >>

\* Lines 155-164: the parent pairs of the generation, drawn with
\* replacement; offspring_schedules = [].
SelectParents ==
    /\ pc = "select"
    /\ \E pairs \in [ 1..NumberOfParentPairs(config) ->
                        Selectable(current_population, current_fitness_scores)
                        \X Selectable(current_population, current_fitness_scores) ] :
         parent_combinations' = pairs
    /\ offspring_schedules' = << >>
    /\ pc' = "reproduce"
    /\ UNCHANGED << config, current_population, current_mutation_rate,
                    previous_average_fitness, generation_number,
                    current_fitness_scores, generation_history,
                    total_generations_run, final_mutation_rate, fitness_cache,
                    next_ref, results, error, mutation_draws_left >>

\* Lines 166-176: one iteration of the reproduction loop: crossover of the
\* next parent pair, mutation of the child, append.
Reproduce ==
    /\ pc = "reproduce"
    /\ parent_combinations # << >>
    /\ LET parent_a == current_population[Head(parent_combinations)[1]]
           parent_b == current_population[Head(parent_combinations)[2]]
       IN  \E draw \in CrossoverDraws(config.crossover_method, parent_a, parent_b) :
           \E plan \in SUBSET MutationDraws :
             LET child_schedule ==
                     Crossover(config.crossover_method, parent_a, parent_b, draw, next_ref)
                 heap == apply_mutation(current_population \o offspring_schedules
                                          \o << child_schedule >>,
                                        child_schedule, plan)
                 n == Len(current_population)
             IN  /\ Cardinality(plan) <= mutation_draws_left
                 /\ PlanPossible(plan, current_mutation_rate)
                 /\ mutation_draws_left' = mutation_draws_left - Cardinality(plan)
                 /\ current_population' = SubSeq(heap, 1, n)
                 /\ offspring_schedules' = SubSeq(heap, n + 1, Len(heap))
    /\ parent_combinations' = Tail(parent_combinations)
    /\ next_ref' = next_ref + ObjectsPerSchedule
    /\ UNCHANGED << pc, config, current_mutation_rate, previous_average_fitness,
                    generation_number, current_fitness_scores,
                    generation_history, total_generations_run,
                    final_mutation_rate, fitness_cache, results, error >>

\* Lines 181-199: elitism and the next generation, at the end of the
\* reproduction loop; the evolution loop goes to its next iteration.
AssembleNextGeneration ==
    /\ pc = "reproduce"
    /\ parent_combinations = << >>
    /\ LET elite_schedules ==
               select_best_schedules(current_population, current_fitness_scores,
                                     config.elitism_count, next_ref)
       IN  /\ current_population' =
                NextGeneration(elite_schedules, offspring_schedules,
                               config.population_size)
           /\ next_ref' = next_ref + Len(elite_schedules) * ObjectsPerSchedule
    /\ generation_number' = generation_number + 1
    /\ pc' = "loop"
    /\ UNCHANGED << config, current_mutation_rate, previous_average_fitness,
                    current_fitness_scores, parent_combinations,
                    offspring_schedules, generation_history,
                    total_generations_run, final_mutation_rate, fitness_cache,
                    results, error, mutation_draws_left >>

\* A returned dictionary whose statistics are those of the last evaluation
\* of the loop, where there was one, instead of the final evaluation.
ReturnLoopStatistics(evaluation, best_schedule_index, violations) ==
    /\ current_population' =
         HeapSetViolations(
             evaluation.population, evaluation.population[best_schedule_index].ref,
             Some(violations))
    /\ fitness_cache' = evaluation.cache
    /\ results' = Some([ best_schedule |-> current_population'[best_schedule_index],
                         history |-> generation_history,
                         final_mutation_rate |-> current_mutation_rate,
                         generations_run |-> total_generations_run,
                         final_fitness_scores |->
                             IF generation_history = << >>
                             THEN [ best |-> evaluation.best,
                                    average |-> evaluation.average,
                                    worst |-> evaluation.worst ]
                             ELSE [ best |-> generation_history[Len(generation_history)].best,
                                    average |-> generation_history[Len(generation_history)].avg,
                                    worst |-> generation_history[Len(generation_history)].worst ] ])

\* Lines 213-238 for the final evaluation, the index of its best schedule
\* and that schedule's violation map: the returned dictionary.
ReturnResults(evaluation, best_schedule_index, violations) ==
    /\ current_population' =
         HeapSetViolations(
             evaluation.population, evaluation.population[best_schedule_index].ref,
             Some(violations))
    /\ fitness_cache' = evaluation.cache
    /\ results' = Some([ best_schedule |-> current_population'[best_schedule_index],
                         history |-> generation_history,
                         final_mutation_rate |-> current_mutation_rate,
                         generations_run |-> total_generations_run,
                         final_fitness_scores |->
                             [ best |-> evaluation.best,
                               average |-> evaluation.average,
                               worst |-> evaluation.worst ] ])

\* Lines 213-218: the best schedule of the final evaluation and its
\* violation breakdown.
ReturnBestOf(evaluation) ==
    \E best_schedule_index \in { BestScheduleIndex(evaluation.fitness_scores) } :
    \E violations \in
         { calculate_constraint_violations(evaluation.population[best_schedule_index]) } :
      ReturnResults(evaluation, best_schedule_index, violations)

\* Lines 204-238: the final evaluation, the best schedule with its
\* violation breakdown, and the returned dictionary.
Finalize ==
    /\ pc = "final"
    /\ current_population # << >>
    /\ \E evaluation \in { evaluate_entire_population(current_population,
                                                      fitness_cache) } :
         ReturnBestOf(evaluation)
    /\ final_mutation_rate' = current_mutation_rate
    /\ pc' = "done"
    /\ UNCHANGED << config, current_mutation_rate, previous_average_fitness,
                    generation_number, current_fitness_scores,
                    parent_combinations, offspring_schedules, generation_history,
                    total_generations_run, next_ref, error, mutation_draws_left >>

\* Line 213: max() of an empty range raises ValueError.
FinalizeEmpty ==
    /\ pc = "final"
    /\ current_population = << >>
    /\ pc' = "error"
    /\ error' = Some("ValueError")
    /\ UNCHANGED << config, current_population, current_mutation_rate,
                    previous_average_fitness, generation_number,
                    current_fitness_scores, parent_combinations,
                    offspring_schedules, generation_history,
                    total_generations_run, final_mutation_rate, fitness_cache,
                    next_ref, results, mutation_draws_left >>

Next ==
    \/ InitializeRejected
    \/ Initialize
    \/ LoopExit
    \/ EvaluateGeneration
    \/ SelectParents
    \/ Reproduce
    \/ AssembleNextGeneration
    \/ Finalize

Spec == Init /\ [][Next]_vars

\* run_optimization is one sequential call: a step that can be taken is
\* taken.
FairSpec == Init /\ [][Next]_vars /\ WF_vars(Next)

(***************************************************************************)
(* Calls of the evaluator and the operators on schedules a caller holds    *)
(***************************************************************************)
\* The most schedules the caller holds.
MaxHeld == 1

\* The most calls that write assignment fields.
MaxWritingCalls == 2

\* The field values the writing calls choose from: they bring a second and
\* a third activity into the room and slot of SLA101A, move Tyler from a
\* load of 1 to a load of 2 (and Zeldin from 3 to 2), put a value back, and
\* move SLA191A into the slot of SLA101A, two slots after it, and into the
\* building of SLA101A.
FieldDraws ==
    { [ activity |-> "SLA303", field |-> "room", value |-> "Roman 201" ],
      [ activity |-> "SLA303", field |-> "room", value |-> "Slater 003" ],
      [ activity |-> "SLA449", field |-> "time", value |-> "10 AM" ],
      [ activity |-> "SLA449", field |-> "facilitator", value |-> "Tyler" ],
      [ activity |-> "SLA449", field |-> "facilitator", value |-> "Zeldin" ],
      [ activity |-> "SLA191A", field |-> "time", value |-> "10 AM" ],
      [ activity |-> "SLA191A", field |-> "time", value |-> "12 PM" ],
      [ activity |-> "SLA191A", field |-> "room", value |-> "Roman 216" ] }

\* The mutation probabilities the calls of apply_mutation pass.
MutationProbabilities == { Rat(0, 1), Rat(1, 100), Rat(1, 1) }

\* The plan in which every draw of apply_mutation came out true and
\* random.choice returned the fields of values.
FullPlan(values) ==
    UNION { { [ activity |-> a, field |-> "room", value |-> values[a][1] ],
              [ activity |-> a, field |-> "time", value |-> values[a][2] ],
              [ activity |-> a, field |-> "facilitator", value |-> values[a][3] ] } :
            a \in Activities }

\* The plans the calls of apply_mutation draw: no field, one of the field
\* draws, or every field.
MutationPlans ==
    { plan \in SUBSET FieldDraws : Cardinality(plan) <= 1 }
    \cup { FullPlan(SampleSchedule(i)) : i \in 1..NumSamples }

\* The caller holds up to MaxHeld schedules of generate_random_schedule,
\* the evaluator's cache is empty, and no call has been made.
CallInit ==
    /\ pc = "calls"
    /\ config \in { c \in ElitismConfigs : c.elitism_count = 0 }
    /\ \E n \in 0..MaxHeld : \E draws \in [ 1..n -> 1..NumSamples ] :
         /\ current_population = create_initial_population(draws, 1)
         /\ next_ref = 1 + n * ObjectsPerSchedule
    /\ current_mutation_rate \in MutationProbabilities
    /\ mutation_draws_left = MaxWritingCalls
    /\ previous_average_fitness = None
    /\ generation_number = 0
    /\ current_fitness_scores = << >>
    /\ parent_combinations = << >>
    /\ offspring_schedules = << >>
    /\ generation_history = << >>
    /\ total_generations_run = 0
    /\ final_mutation_rate = Rat(1, 100)
    /\ fitness_cache = << >>
    /\ results = None
    /\ error = None

\* fitness_calculator.calculate_schedule_fitness(schedule) on a held
\* schedule: the score is stored in the cache and in schedule.fitness and
\* returned.
CallFitness ==
    /\ pc = "calls"
    /\ \E i \in 1..Len(current_population) :
       \E stored \in { calculate_schedule_fitness(fitness_cache, current_population[i]) } :
         /\ current_population' =
              HeapSetFitness(current_population, current_population[i].ref,
                             Some(stored.score))
         /\ fitness_cache' = stored.cache
         /\ results' = Some([ call |-> "calculate_schedule_fitness",
                              schedule |-> i, returned |-> stored.score ])
    /\ UNCHANGED << pc, config, current_mutation_rate, previous_average_fitness,
                    generation_number, current_fitness_scores,
                    parent_combinations, offspring_schedules, generation_history,
                    total_generations_run, final_mutation_rate, next_ref, error,
                    mutation_draws_left >>

\* fitness_calculator.calculate_constraint_violations(schedule) on a held
\* schedule: the map is stored in schedule.violations and returned.
CallViolations ==
    /\ pc = "calls"
    /\ \E i \in 1..Len(current_population) :
       \E violation_counts \in { calculate_constraint_violations(current_population[i]) } :
         /\ current_population' =
              HeapSetViolations(current_population, current_population[i].ref,
                                Some(violation_counts))
         /\ results' = Some([ call |-> "calculate_constraint_violations",
                              schedule |-> i, returned |-> violation_counts ])
    /\ UNCHANGED << pc, config, current_mutation_rate, previous_average_fitness,
                    generation_number, current_fitness_scores,
                    parent_combinations, offspring_schedules, generation_history,
                    total_generations_run, final_mutation_rate, fitness_cache,
                    next_ref, error, mutation_draws_left >>

\* apply_mutation(schedule, p) on a held schedule; it returns the schedule.
CallMutation ==
    /\ pc = "calls"
    /\ mutation_draws_left > 0
    /\ \E i \in 1..Len(current_population) :
       \E plan \in { q \in MutationPlans : PlanPossible(q, current_mutation_rate) } :
         /\ current_population' =
              apply_mutation(current_population, current_population[i], plan)
         /\ results' = Some([ call |-> "apply_mutation", schedule |-> i,
                              returned |-> plan ])
    /\ mutation_draws_left' = mutation_draws_left - 1
    /\ UNCHANGED << pc, config, current_mutation_rate, previous_average_fitness,
                    generation_number, current_fitness_scores,
                    parent_combinations, offspring_schedules, generation_history,
                    total_generations_run, final_mutation_rate, fitness_cache,
                    next_ref, error >>

\* schedule.assignments[activity].<field> = value by the caller, on a held
\* schedule: no cached field is touched.
CallWriteField ==
    /\ pc = "calls"
    /\ mutation_draws_left > 0
    /\ \E i \in 1..Len(current_population) : \E draw \in FieldDraws :
         /\ current_population' =
              HeapWriteFields(current_population,
                              MutationWrites(current_population[i], { draw }))
         /\ results' = Some([ call |-> "write", schedule |-> i,
                              returned |-> { draw } ])
    /\ mutation_draws_left' = mutation_draws_left - 1
    /\ UNCHANGED << pc, config, current_mutation_rate, previous_average_fitness,
                    generation_number, current_fitness_scores,
                    parent_combinations, offspring_schedules, generation_history,
                    total_generations_run, final_mutation_rate, fitness_cache,
                    next_ref, error >>

\* engine._evaluate_entire_population(population) on the held schedules.
CallEvaluatePopulation ==
    /\ pc = "calls"
    /\ \E evaluation \in { evaluate_entire_population(current_population,
                                                      fitness_cache) } :
         /\ current_population' = evaluation.population
         /\ fitness_cache' = evaluation.cache
         /\ results' = Some([ call |-> "_evaluate_entire_population",
                              schedule |-> 0,
                              returned |-> [ fitness_scores |-> evaluation.fitness_scores,
                                             best |-> evaluation.best,
                                             average |-> evaluation.average,
                                             worst |-> evaluation.worst ] ])
    /\ UNCHANGED << pc, config, current_mutation_rate, previous_average_fitness,
                    generation_number, current_fitness_scores,
                    parent_combinations, offspring_schedules, generation_history,
                    total_generations_run, final_mutation_rate, next_ref, error,
                    mutation_draws_left >>

\* The most pairs a call of select_parent_pairs asks for.
MaxPairs == 1

\* The numbers of pairs the calls of select_parent_pairs ask for.
PairCounts == 0..MaxPairs

\* select_parent_pairs(population, calculate_softmax_probabilities(scores),
\* number_of_pairs) on the held schedules and the scores their evaluation
\* has just returned, as in lines 155-159 of run_optimization: the pairs
\* drawn, as indices of the held list.
CallSelectParentPairs ==
    /\ pc = "calls"
    /\ results # None
    /\ Val(results).call = "_evaluate_entire_population"
    /\ \E number_of_pairs \in PairCounts :
         /\ ~(current_population = << >> /\ number_of_pairs > 0)
         /\ \E pairs \in [ 1..number_of_pairs ->
                             Selectable(current_population,
                                        Val(results).returned.fitness_scores)
                             \X Selectable(current_population,
                                           Val(results).returned.fitness_scores) ] :
              results' = Some([ call |-> "select_parent_pairs", schedule |-> 0,
                                returned |-> pairs ])
    /\ UNCHANGED << pc, config, current_population, current_mutation_rate,
                    previous_average_fitness, generation_number,
                    current_fitness_scores, parent_combinations,
                    offspring_schedules, generation_history,
                    total_generations_run, final_mutation_rate, fitness_cache,
                    next_ref, error, mutation_draws_left >>

\* The same call on an empty population for one pair or more: line 55,
\* random.choices(population, weights, k=1) of an empty population, raises
\* IndexError.
CallSelectParentPairsEmpty ==
    /\ pc = "calls"
    /\ results # None
    /\ Val(results).call = "_evaluate_entire_population"
    /\ current_population = << >>
    /\ \E number_of_pairs \in PairCounts : number_of_pairs > 0
    /\ pc' = "error"
    /\ error' = Some("IndexError")
    /\ UNCHANGED << config, current_population, current_mutation_rate,
                    previous_average_fitness, generation_number,
                    current_fitness_scores, parent_combinations,
                    offspring_schedules, generation_history,
                    total_generations_run, final_mutation_rate, fitness_cache,
                    next_ref, results, mutation_draws_left >>

\* schedule.create_copy() on a held schedule; the caller looks at the copy
\* and drops it.
CallCreateCopy ==
    /\ pc = "calls"
    /\ \E i \in 1..Len(current_population) :
         results' = Some([ call |-> "create_copy", schedule |-> i,
                           returned |-> create_copy(current_population[i], next_ref) ])
    /\ UNCHANGED << pc, config, current_population, current_mutation_rate,
                    previous_average_fitness, generation_number,
                    current_fitness_scores, parent_combinations,
                    offspring_schedules, generation_history,
                    total_generations_run, final_mutation_rate, fitness_cache,
                    next_ref, error, mutation_draws_left >>

CallNext ==
    \/ CallFitness
    \/ CallViolations
    \/ CallMutation
    \/ CallWriteField
    \/ CallEvaluatePopulation
    \/ CallSelectParentPairs
    \/ CallSelectParentPairsEmpty
    \/ CallCreateCopy

CallSpec == CallInit /\ [][CallNext]_vars

(***************************************************************************)
(* Properties of run_optimization                                          *)
(***************************************************************************)
\* The improvement of the average now over the average previous is below
\* p / q percent, from the two averages themselves (lines 103-111).
AverageImprovementLess(previous, now, p, q) ==
    IF previous.num # 0
    THEN 100 * q * (now.num * previous.den - previous.num * now.den)
           < p * now.den * Abs(previous.num)
    ELSE now.num <= 0

\* The improvement of the average now over the average previous is above
\* p / q percent.
AverageImprovementGreater(previous, now, p, q) ==
    IF previous.num # 0
    THEN 100 * q * (now.num * previous.den - previous.num * now.den)
           > p * now.den * Abs(previous.num)
    ELSE now.num > 0

\* The i-th generation of the history (generation index i - 1, i completed
\* generations) meets the plateau rule: the floor is reached, there is a
\* previous average, and the improvement over it is below 1 percent.
PlateauAt(i) ==
    /\ i > 1
    /\ i >= config.minimum_generations
    /\ AverageImprovementLess(generation_history[i - 1].avg,
                              generation_history[i].avg, 1, 1)

\* The loop was left by its break: the loop variable is still in range.
PlateauStop ==
    /\ pc \in { "final", "done" }
    /\ generation_number < config.maximum_generations

\* C1: once the initial population exists, the population held between the
\* steps of the loop, and so every population assembled for the next
\* generation, has exactly population_size schedules.
C1_PopulationSizeKept ==
    pc \notin { "start", "error" } =>
        Len(current_population) = config.population_size

\* A generation was assembled from one elite and more offspring than fit,
\* and was cut to the population size.
C1_Witness ==
    /\ pc = "loop"
    /\ generation_number > 0
    /\ config.elitism_count < 0
    /\ Len(offspring_schedules) > config.population_size

\* C2: when the loop is left by the plateau rule, the number of completed
\* generations is at least minimum_generations.
C2_PlateauNotBeforeFloor ==
    PlateauStop => total_generations_run >= config.minimum_generations

\* The plateau rule stopped a run that had a flat generation below the
\* floor.
C2_Witness ==
    /\ PlateauStop
    /\ \E i \in 2..Len(generation_history) :
         /\ i < config.minimum_generations
         /\ AverageImprovementLess(generation_history[i - 1].avg,
                                   generation_history[i].avg, 1, 1)

\* C3: the run stops at the first generation that meets the plateau rule:
\* no earlier generation of the history meets it, a generation that meets
\* it is the last one and no selection or reproduction follows it, and the
\* returned generations_run is that generation's count, or
\* maximum_generations when no generation met the rule.
C3_StopsAtFirstPlateau ==
    /\ \A i \in 1..(Len(generation_history) - 1) : ~PlateauAt(i)
    /\ (generation_history # << >> /\ PlateauAt(Len(generation_history))) =>
         /\ pc \in { "final", "done" }
         /\ generation_number = Len(generation_history) - 1
         /\ total_generations_run = Len(generation_history)
    /\ PlateauStop => PlateauAt(Len(generation_history))
    /\ pc = "done" =>
         /\ Val(results).generations_run = Len(generation_history)
         /\ \/ PlateauAt(Len(generation_history))
            \/ Len(generation_history) = config.maximum_generations

\* A run went past a generation at or above the floor whose improvement
\* was 1 percent or more, and stopped by the plateau rule at a later one.
C3_Witness ==
    /\ pc = "done"
    /\ PlateauStop
    /\ \E i \in 2..(Len(generation_history) - 1) :
         /\ i >= config.minimum_generations
         /\ ~AverageImprovementLess(generation_history[i - 1].avg,
                                    generation_history[i].avg, 1, 1)

\* C4: the number of generations run never exceeds maximum_generations, and
\* every call comes to its end, by a result or by an error.
C4_LoopTerminates ==
    /\ [](total_generations_run <= config.maximum_generations)
    /\ <>(pc \in { "done", "error" })

\* A run ended at the ceiling with every improvement at 1 percent or more.
C4_Witness ==
    /\ pc = "done"
    /\ ~PlateauStop
    /\ Len(generation_history) >= 3
    /\ Val(results).generations_run = config.maximum_generations
    /\ \A i \in 2..Len(generation_history) :
         ~AverageImprovementLess(generation_history[i - 1].avg,
                                 generation_history[i].avg, 1, 1)

\* C5: with a population_size below the floor the call ends in an error
\* with nothing evaluated, nothing recorded and nothing returned.
C5_SmallPopulationRejected ==
    config.population_size < MinimumPopulationSize =>
        /\ pc \in { "start", "error" }
        /\ pc = "error" => error = Some("ValueError")
        /\ current_population = << >>
        /\ current_fitness_scores = << >>
        /\ fitness_cache = << >>
        /\ generation_history = << >>
        /\ total_generations_run = 0
        /\ results = None

\* A call below the floor that asked for generations ended in the error.
C5_Witness ==
    /\ pc = "error"
    /\ error = Some("ValueError")
    /\ config.population_size < MinimumPopulationSize
    /\ config.maximum_generations > 0

\* C6: with elitism_count >= population_size no generation runs and nothing
\* is returned.
C6_ElitismRejected ==
    config.elitism_count >= config.population_size =>
        /\ total_generations_run = 0
        /\ results = None

\* C7, as the code has it: a crossover_method other than "uniform" raises
\* nothing and is the single-point crossover: a child that is appended
\* without a mutation draw holds, for some crossover point, the first
\* parent's values up to the point and the second parent's after it.
C7_OtherMethodIsSinglePoint ==
    /\ []((config.crossover_method \notin { "single_point", "uniform" }
           /\ config.population_size >= MinimumPopulationSize)
          => error = None)
    /\ [][(/\ config.crossover_method \notin { "single_point", "uniform" }
           /\ Len(offspring_schedules') = Len(offspring_schedules) + 1
           /\ mutation_draws_left' = mutation_draws_left)
          => \E c \in 0..(Len(ALL_ACTIVITIES) - 1) :
               \A a \in Activities :
                 Triple(offspring_schedules'[Len(offspring_schedules')].assignments[a])
                   = IF ActivityIndex(a) - 1 <= c
                     THEN Triple(current_population[Head(parent_combinations)[1]]
                                   .assignments[a])
                     ELSE Triple(current_population[Head(parent_combinations)[2]]
                                   .assignments[a])]_vars

\* A run with the method "two_point" holds a child whose values are those
\* of no schedule of the generation it was bred from.
C7_Witness ==
    /\ config.crossover_method = "two_point"
    /\ pc = "reproduce"
    /\ generation_number > 0
    /\ \E i \in DOMAIN offspring_schedules :
         \A j \in DOMAIN current_population :
           AssignmentValues(offspring_schedules[i])
             # AssignmentValues(current_population[j])

\* C7, as the specification has it: with a crossover_method that is neither
\* "single_point" nor "uniform" no child is produced and nothing is
\* returned.
C7_UnrecognizedMethodRejected ==
    config.crossover_method \notin { "single_point", "uniform" } =>
        /\ offspring_schedules = << >>
        /\ results = None

\* The i-th generation of the history is one at which the adaptive
\* adjustment halves the rate when the loop goes on: its index i - 1 is
\* above 0 and a multiple of the interval, and its improvement is defined
\* and above 0.1 percent.
HalvingAt(i) ==
    /\ config.use_adaptive_mutation
    /\ i - 1 > 0
    /\ (i - 1) % AdaptationInterval = 0
    /\ AverageImprovementGreater(generation_history[i - 1].avg,
                                 generation_history[i].avg, 1, 10)

\* The rate with which the loop goes on after the i-th generation.
RateAfter(i) ==
    IF HalvingAt(i) THEN RatHalf(generation_history[i].mutation_rate)
    ELSE generation_history[i].mutation_rate

\* C8: the recorded mutation rate starts at initial_mutation_probability,
\* never increases, and from one record to the next is halved exactly at a
\* halving generation and is unchanged otherwise; the rate in use follows
\* the last record in the same way, and the returned final_mutation_rate is
\* initial_mutation_probability / 2^k for a k of at most the number of
\* halving generations of the history.
C8_MutationRateRatchet ==
    /\ generation_history # << >> =>
         generation_history[1].mutation_rate = config.initial_mutation_probability
    /\ \A i \in 1..(Len(generation_history) - 1) :
         generation_history[i + 1].mutation_rate = RateAfter(i)
    /\ \A i, j \in DOMAIN generation_history :
         i <= j => RatLeq(generation_history[j].mutation_rate,
                          generation_history[i].mutation_rate)
    /\ (generation_history # << >> /\ pc \notin { "start", "error" }) =>
         current_mutation_rate =
           IF PlateauStop THEN generation_history[Len(generation_history)].mutation_rate
           ELSE RateAfter(Len(generation_history))
    /\ pc = "done" =>
         /\ Val(results).final_mutation_rate = current_mutation_rate
         /\ final_mutation_rate = current_mutation_rate
         /\ \E k \in 0..Cardinality({ i \in DOMAIN generation_history : HalvingAt(i) }) :
              RatEq(current_mutation_rate,
                    Rat(config.initial_mutation_probability.num,
                        config.initial_mutation_probability.den * 2^k))

\* A run returned half its initial mutation rate, after a halving at
\* generation index AdaptationInterval.
C8_Witness ==
    /\ pc = "done"
    /\ Len(generation_history) > AdaptationInterval
    /\ HalvingAt(AdaptationInterval + 1)
    /\ RatEq(Val(results).final_mutation_rate,
             RatHalf(config.initial_mutation_probability))

\* The history is well-formed: the i-th record has generation index i - 1,
\* improvement is unset in the first record only, there is one record per
\* generation run, and the returned history is the history, as long as the
\* returned generations_run.
HistoryWellFormed ==
    /\ \A i \in DOMAIN generation_history :
         /\ generation_history[i].generation = i - 1
         /\ generation_history[i].improvement = None <=> i = 1
    /\ Len(generation_history) = total_generations_run
    /\ pc = "done" =>
         /\ Val(results).history = generation_history
         /\ Len(Val(results).history) = Val(results).generations_run

\* A step leaves the history alone or appends one record to it, and
\* appends one exactly when it evaluates a generation of the loop.
HistoryStep ==
    /\ \/ generation_history' = generation_history
       \/ /\ Len(generation_history') = Len(generation_history) + 1
          /\ SubSeq(generation_history', 1, Len(generation_history))
               = generation_history
    /\ generation_history' # generation_history
         <=> (pc = "loop" /\ pc' \in { "select", "final" }
              /\ generation_number < config.maximum_generations)

\* C9: the history is append-only and well-formed at every point of a run.
C9_HistoryAppendOnly ==
    /\ []HistoryWellFormed
    /\ [][HistoryStep]_vars

\* A run returned a history of three records or more.
C9_Witness ==
    /\ pc = "done"
    /\ Len(Val(results).history) >= 3
    /\ Val(results).history[3].improvement # None

\* The fitness of each schedule of the population, computed without the
\* cache.
FitnessOfPopulation ==
    [ i \in DOMAIN current_population |->
        ComputeFitness(current_population[i].assignments) ]

\* C10: at return every schedule of the population holds its fitness,
\* best_schedule is the first schedule of the population with the greatest
\* fitness, it holds its violation map, and its fitness is the returned
\* final best fitness.
C10_BestScheduleReturned ==
    pc = "done" =>
        /\ \A i \in DOMAIN current_population :
             current_population[i].fitness = Some(FitnessOfPopulation[i])
        /\ \E i \in DOMAIN current_population :
             /\ Val(results).best_schedule = current_population[i]
             /\ \A j \in DOMAIN current_population :
                  /\ FitnessOfPopulation[j] <= FitnessOfPopulation[i]
                  /\ j < i => FitnessOfPopulation[j] < FitnessOfPopulation[i]
        /\ Val(results).best_schedule.violations
             = Some(ViolationCounts(Val(results).best_schedule.assignments))
        /\ Val(results).best_schedule.fitness
             = Some(Val(results).final_fitness_scores.best)

\* A run returned the first of two schedules that share the greatest
\* fitness, after at least one generation.
C10_Witness ==
    /\ pc = "done"
    /\ total_generations_run > 0
    /\ \E i, j \in DOMAIN current_population :
         /\ i < j
         /\ current_population[i].fitness = current_population[j].fitness
         /\ current_population[i].fitness
              = Some(Val(results).final_fitness_scores.best)
         /\ Val(results).best_schedule.ref = current_population[i].ref
         /\ current_population[j].ref # current_population[i].ref

(***************************************************************************)
(* Properties of select_best_schedules                                     *)
(***************************************************************************)
\* The objects of a schedule: the Schedule and its ActivityAssignments.
ObjectRefs(schedule) ==
    { schedule.ref } \cup { schedule.assignments[a].ref : a \in DOMAIN schedule.assignments }

\* A write of every field of every assignment object of the schedule.
OverwriteOf(schedule) ==
    UNION { { [ ref |-> schedule.assignments[a].ref, field |-> "room", value |-> "Slater 003" ],
              [ ref |-> schedule.assignments[a].ref, field |-> "time", value |-> "3 PM" ],
              [ ref |-> schedule.assignments[a].ref, field |-> "facilitator",
                value |-> "Uther" ] } : a \in DOMAIN schedule.assignments }

\* elites are copies of the k highest-fitness schedules of the population,
\* in descending fitness order.
TopCopies(elites, population, fitness_scores, k) ==
    \E chosen \in [ 1..k -> 1..Len(population) ] :
      /\ \A i, j \in 1..k : i # j => chosen[i] # chosen[j]
      /\ \A i \in 1..k :
           AssignmentValues(elites[i]) = AssignmentValues(population[chosen[i]])
      /\ \A i, j \in 1..k :
           i < j => fitness_scores[chosen[i]] >= fitness_scores[chosen[j]]
      /\ \A i \in 1..k : \A j \in 1..Len(population) :
           (\A h \in 1..k : chosen[h] # j) =>
             fitness_scores[j] <= fitness_scores[chosen[i]]

\* elites and population share no object, and a write to the objects of
\* the one is not seen through the other.
Independent(elites, population) ==
    /\ \A i \in 1..Len(elites) : \A j \in 1..Len(population) :
         ObjectRefs(elites[i]) \cap ObjectRefs(population[j]) = {}
    /\ \A i, j \in 1..Len(elites) :
         i # j => ObjectRefs(elites[i]) \cap ObjectRefs(elites[j]) = {}
    /\ \A i \in 1..Len(elites) :
         /\ Cardinality(ObjectRefs(elites[i])) = ObjectsPerSchedule
         /\ HeapWriteFields(population, OverwriteOf(elites[i])) = population
         /\ HeapSetFitness(population, elites[i].ref, None) = population
    /\ \A j \in 1..Len(population) :
         /\ HeapWriteFields(elites, OverwriteOf(population[j])) = elites
         /\ HeapSetFitness(elites, population[j].ref, None) = elites

\* C11: for an evaluated population and every k from 0 to its length,
\* select_best_schedules returns exactly k schedules whose assignments are
\* those of the k highest-fitness schedules in descending fitness order, and
\* every returned schedule and assignment is a new object: a change of an
\* elite is not a change of a schedule of the population, nor the reverse.
C11_ElitesAreIndependentTopCopies ==
    pc = "reproduce" =>
      \A k \in 0..Len(current_population) :
        \E elites \in { select_best_schedules(current_population,
                                              current_fitness_scores, k, next_ref) } :
          /\ Len(elites) = k
          /\ TopCopies(elites, current_population, current_fitness_scores, k)
          /\ Independent(elites, current_population \o offspring_schedules)

\* A population of a later generation whose second schedule is the better
\* one, so that the elite is not the head of the list.
C11_Witness ==
    /\ pc = "reproduce"
    /\ generation_number >= 1
    /\ Len(current_population) = MinimumPopulationSize
    /\ current_fitness_scores[1] < current_fitness_scores[2]
    /\ \E elites \in { select_best_schedules(current_population,
                                             current_fitness_scores, 1, next_ref) } :
         /\ Len(elites) = 1
         /\ AssignmentValues(elites[1]) = AssignmentValues(current_population[2])
         /\ AssignmentValues(elites[1]) # AssignmentValues(current_population[1])
         /\ elites[1].ref # current_population[2].ref

(***************************************************************************)
(* Properties of the next generation                                       *)
(***************************************************************************)
\* The schedules at the head of the population that are elite copies: a
\* copy carries the fitness of its original (models.py line 96), a mutated
\* child has none (genetic_operators.py line 93).
EliteCopies(population) ==
    { i \in 1..Len(population) : IsSet(population[i].fitness) }

\* C12: in every generation, for every elitism_count >= 0, the next
\* population starts with exactly elitism_count elite copies followed by
\* offspring only, and for 0 <= elitism_count < population_size it is
\* exactly population_size long.
C12_ExactlyElitismCountElites ==
    (pc = "loop" /\ generation_number >= 1 /\ config.elitism_count >= 0) =>
      /\ EliteCopies(current_population) = 1..config.elitism_count
      /\ config.elitism_count < config.population_size =>
           Len(current_population) = config.population_size

(***************************************************************************)
(* Properties of apply_mutation and of the schedules of a run              *)
(***************************************************************************)
\* The last call was a call of the named function.
LastCall(name) == results # None /\ Val(results).call = name

\* The held schedule the last call was made on.
CalledSchedule == current_population[Val(results).schedule]

\* C13: after any call of apply_mutation(schedule, p), for any p and
\* whether or not a field changed, both cached fields of the schedule are
\* unset: schedule.fitness is None and schedule.violations is None.
C13_MutationClearsCachedFields ==
    LastCall("apply_mutation") =>
      /\ CalledSchedule.fitness = None
      /\ CalledSchedule.violations = None

\* A schedule is complete: an assignment for exactly the activities of the
\* catalog, every field set to a value of its catalog domain.
Complete(schedule) ==
    /\ DOMAIN schedule.assignments = Activities
    /\ \A a \in Activities :
         /\ schedule.assignments[a].room \in Rooms
         /\ schedule.assignments[a].time \in TimeSlots
         /\ schedule.assignments[a].facilitator \in Facilitators

\* C14: every schedule of a run is complete, in every generation: the
\* initial schedules, the crossover children before and after mutation, the
\* elite copies, and the returned best schedule.
C14_SchedulesComplete ==
    /\ \A i \in 1..Len(current_population) : Complete(current_population[i])
    /\ \A i \in 1..Len(offspring_schedules) : Complete(offspring_schedules[i])
    /\ pc = "reproduce" /\ parent_combinations # << >> =>
         \A draw \in CrossoverDraws(config.crossover_method,
                                    current_population[Head(parent_combinations)[1]],
                                    current_population[Head(parent_combinations)[2]]) :
           Complete(Crossover(config.crossover_method,
                              current_population[Head(parent_combinations)[1]],
                              current_population[Head(parent_combinations)[2]],
                              draw, next_ref))
    /\ results # None => Complete(Val(results).best_schedule)

\* A later generation that holds an elite copy next to a child, after a
\* mutation draw has replaced a field.
C14_Witness ==
    /\ pc = "loop"
    /\ generation_number >= 1
    /\ mutation_draws_left < MaxMutations
    /\ \E i, j \in 1..Len(current_population) :
         /\ IsSet(current_population[i].fitness)
         /\ current_population[j].fitness = None
         /\ \A s \in 1..NumSamples :
              AssignmentValues(current_population[j])
                # AssignmentValues(generate_random_schedule(SampleSchedule(s), 0))
         /\ Complete(current_population[i])
         /\ Complete(current_population[j])

(***************************************************************************)
(* Properties of the fitness evaluator                                     *)
(***************************************************************************)
\* C15: the fitness cache is not observable.  Whatever calls and field
\* writes came before, a call of calculate_schedule_fitness returns the
\* score a cache-free evaluation of the schedule's assignments as they are
\* now returns, and so does every score of _evaluate_entire_population;
\* every cached score is the score of the assignments it is keyed by.
C15_CacheNotObservable ==
    /\ LastCall("calculate_schedule_fitness") =>
         /\ Val(results).returned = ComputeFitness(CalledSchedule.assignments)
         /\ CalledSchedule.fitness = Some(Val(results).returned)
    /\ LastCall("_evaluate_entire_population") =>
         /\ Len(Val(results).returned.fitness_scores) = Len(current_population)
         /\ \A i \in 1..Len(current_population) :
              Val(results).returned.fitness_scores[i]
                = ComputeFitness(current_population[i].assignments)
    /\ pc = "calls" =>
         \A i \in 1..Len(current_population) :
           CacheKey(current_population[i]) \in DOMAIN fitness_cache =>
             fitness_cache[CacheKey(current_population[i])]
               = ComputeFitness(current_population[i].assignments)

\* A call on a schedule whose fields were written twice, with the score of
\* other assignments in the cache next to its own.
C15_Witness ==
    /\ LastCall("calculate_schedule_fitness")
    /\ mutation_draws_left = MaxWritingCalls - 2
    /\ CacheKey(CalledSchedule) \in DOMAIN fitness_cache
    /\ \E other \in DOMAIN fitness_cache :
         /\ other # CacheKey(CalledSchedule)
         /\ fitness_cache[other] # Val(results).returned
    /\ \E s \in 1..NumSamples :
         AssignmentValues(CalledSchedule)
           = AssignmentValues(generate_random_schedule(SampleSchedule(s), 0))
    /\ Val(results).returned = ComputeFitness(CalledSchedule.assignments)

\* The activities of a schedule in a room at a time slot.
Occupants(schedule, room, time) ==
    { a \in Activities : /\ schedule.assignments[a].room = room
                         /\ schedule.assignments[a].time = time }

\* The (room, time slot) pairs used by more than one activity.
SharedPairs(schedule) ==
    { pair \in Rooms \X TimeSlots :
        Cardinality(Occupants(schedule, pair[1], pair[2])) > 1 }

\* C16: calculate_constraint_violations reports room_conflicts as the sum,
\* over the (room, time slot) pairs used by more than one activity, of
\* occupants - 1: N activities in one pair count N - 1, and three
\* activities in one pair with no other shared pair count 2.
C16_RoomConflictsCountExcess ==
    LastCall("calculate_constraint_violations") =>
      /\ Val(results).returned.room_conflicts
           = SumSet([ pair \in SharedPairs(CalledSchedule) |->
                        Cardinality(Occupants(CalledSchedule, pair[1], pair[2])) - 1 ],
                    SharedPairs(CalledSchedule))
      /\ \A pair \in SharedPairs(CalledSchedule) :
           SharedPairs(CalledSchedule) = { pair } =>
             Val(results).returned.room_conflicts
               = Cardinality(Occupants(CalledSchedule, pair[1], pair[2])) - 1

\* The violations of a schedule with three activities in one room and slot
\* and no other shared pair.
C16_Witness ==
    /\ LastCall("calculate_constraint_violations")
    /\ \E pair \in Rooms \X TimeSlots :
         /\ SharedPairs(CalledSchedule) = { pair }
         /\ Cardinality(Occupants(CalledSchedule, pair[1], pair[2])) = 3
    /\ Val(results).returned.room_conflicts = 2

\* The total load of a facilitator in a schedule.
LoadOf(schedule, facilitator) ==
    Cardinality({ a \in Activities : schedule.assignments[a].facilitator = facilitator })

\* The part of an activity's score that is its facilitator's load penalty:
\* the score less the room-size, preference, room-conflict and
\* facilitator-same-time terms (lines 227-246).
LoadPenalty(schedule, a) ==
    LET assignment == schedule.assignments[a]
        shared == Cardinality(Occupants(schedule, assignment.room, assignment.time))
        concurrent ==
            Cardinality({ b \in Activities :
                            /\ schedule.assignments[b].facilitator = assignment.facilitator
                            /\ schedule.assignments[b].time = assignment.time })
    IN  ActivityScore(schedule.assignments, a)
        - evaluate_room_size(a, assignment.room)
        - evaluate_facilitator_preference(a, assignment.facilitator)
        - (IF shared > 1 THEN -10 ELSE 0)
        - (IF concurrent = 1 THEN 4 ELSE -4)

C18_ViolationMapTotal ==
    (LastCall("calculate_constraint_violations") /\ Complete(CalledSchedule)) =>
      /\ DOMAIN Val(results).returned = ViolationKinds
      /\ Cardinality(DOMAIN Val(results).returned) = 13
      /\ \A k \in DOMAIN Val(results).returned : Val(results).returned[k] \in Nat
      /\ CalledSchedule.violations = Some(Val(results).returned)

\* The violations of a schedule in which some rules fire and others do not.
C18_Witness ==
    /\ LastCall("calculate_constraint_violations")
    /\ Complete(CalledSchedule)
    /\ \E k \in ViolationKinds : Val(results).returned[k] = 0
    /\ \E k \in ViolationKinds : Val(results).returned[k] > 1
    /\ Val(results).returned.room_conflicts = 0
    /\ Val(results).returned.facilitator_underload > 0

\* The section pairs the evaluator scores: the two same-course pairs and
\* the four cross-course pairs.
SectionPairs ==
    { SLA101_SECTIONS, SLA191_SECTIONS }
    \cup { CROSS_SECTION_PAIRS[i] : i \in 1..Len(CROSS_SECTION_PAIRS) }

\* Every section pair of a time assignment is more than 4 hours apart or in
\* consecutive slots (whatever the rooms).
PairsApartOrConsecutive(times) ==
    \A pair \in SectionPairs :
      \/ calculate_hour_difference(times[pair[1]], times[pair[2]]) > 4
      \/ calculate_hour_difference(times[pair[1]], times[pair[2]]) = 1

\* No assignment of the six time slots to the four sections puts every
\* section pair more than 4 hours apart or in consecutive slots: both
\* distances are odd, and the three distances among any three sections
\* cannot all be odd.  No schedule meets the spacing condition of the
\* zero-violation check of C19.
NoScheduleHasAllPairsApartOrConsecutive ==
    \A times \in [ { "SLA101A", "SLA101B", "SLA191A", "SLA191B" } -> TimeSlots ] :
      ~PairsApartOrConsecutive(times)

SplitAt(child, parent_1, parent_2, i) ==
    \A k \in 1..Len(ALL_ACTIVITIES) :
      Triple(child.assignments[ALL_ACTIVITIES[k]]) =
        IF k <= i THEN Triple(parent_1.assignments[ALL_ACTIVITIES[k]])
                  ELSE Triple(parent_2.assignments[ALL_ACTIVITIES[k]])

\* The parents of the pair that the reproduction loop crosses over next.
NextParents ==
    << current_population[Head(parent_combinations)[1]],
       current_population[Head(parent_combinations)[2]] >>

\* C22: for the parents a, b of every drawn pair and every crossover point,
\* perform_single_point_crossover(a, b) is a schedule that, for some index
\* i of the catalog order, holds a's assignment of every activity at or
\* before i and b's of every activity after i; it shares no object with a
\* schedule of the population, and a write of every field of the child
\* leaves every schedule of the population as it was.
C22_SinglePointCrossoverFrame ==
    (pc = "reproduce" /\ parent_combinations # << >>) =>
      \A crossover_point \in 0..(Len(ALL_ACTIVITIES) - 1) :
        \E child \in { perform_single_point_crossover(
                         NextParents[1], NextParents[2],
                         crossover_point, next_ref) } :
          /\ DOMAIN child.assignments = Activities
          /\ \E i \in 1..Len(ALL_ACTIVITIES) :
               SplitAt(child, NextParents[1], NextParents[2], i)
          /\ Independent(<< child >>, current_population)

\* Two parents that differ on both sides of a crossover point, so that the
\* child is equal to neither of them.
C22_Witness ==
    /\ pc = "reproduce"
    /\ parent_combinations # << >>
    /\ \E crossover_point \in 0..(Len(ALL_ACTIVITIES) - 1) :
         \E child \in { perform_single_point_crossover(
                          NextParents[1], NextParents[2],
                          crossover_point, next_ref) } :
           /\ AssignmentValues(child) # AssignmentValues(NextParents[1])
           /\ AssignmentValues(child) # AssignmentValues(NextParents[2])
           /\ SplitAt(child, NextParents[1], NextParents[2], crossover_point + 1)


\* The sets of activities a uniform crossover is checked on: those that
\* take at most MaxFromSecond activities from one of the parents.
FromSecondSets ==
    { S \in SUBSET Activities :
        \/ Cardinality(S) <= MaxFromSecond
        \/ Cardinality(S) >= Len(ALL_ACTIVITIES) - MaxFromSecond }

\* C23: crossing a schedule over with itself, by either method and under
\* every random outcome, gives a new schedule whose assignments are equal
\* by value to the schedule's for every activity; and every assignment of
\* perform_uniform_crossover(a, b) is equal by value to a's or to b's
\* assignment of the same activity.
C23_SelfPairingCopies ==
    (pc = "reproduce" /\ parent_combinations # << >>) =>
      /\ \A crossover_point \in 0..(Len(ALL_ACTIVITIES) - 1) :
           \E child \in { perform_single_point_crossover(
                            NextParents[1], NextParents[1],
                            crossover_point, next_ref) } :
             /\ AssignmentValues(child) = AssignmentValues(NextParents[1])
             /\ ObjectRefs(child) \cap ObjectRefs(NextParents[1]) = {}
      /\ \A from_second \in FromSecondSets :
           /\ \E child \in { perform_uniform_crossover(
                               NextParents[1], NextParents[1],
                               from_second, next_ref) } :
                /\ AssignmentValues(child) = AssignmentValues(NextParents[1])
                /\ ObjectRefs(child) \cap ObjectRefs(NextParents[1]) = {}
           /\ \E child \in { perform_uniform_crossover(
                               NextParents[1], NextParents[2],
                               from_second, next_ref) } :
                /\ DOMAIN child.assignments = Activities
                /\ \A a \in Activities :
                     \/ Triple(child.assignments[a]) =
                          Triple(NextParents[1].assignments[a])
                     \/ Triple(child.assignments[a]) =
                          Triple(NextParents[2].assignments[a])

\* A drawn pair of two schedules that differ on two activities, and a
\* uniform crossover of them that is equal to neither.
C23_Witness ==
    /\ pc = "reproduce"
    /\ parent_combinations # << >>
    /\ config.crossover_method = "uniform"
    /\ Cardinality(Differing(NextParents[1], NextParents[2])) >= 2
    /\ \E from_second \in FromSecondSets :
         \E child \in { perform_uniform_crossover(
                          NextParents[1], NextParents[2], from_second, next_ref) } :
           /\ AssignmentValues(child) # AssignmentValues(NextParents[1])
           /\ AssignmentValues(child) # AssignmentValues(NextParents[2])


(***************************************************************************)
(* Properties of apply_mutation                                            *)
(***************************************************************************)
\* The fields of an assignment and their catalog domains.
FieldNames == { "room", "time", "facilitator" }

\* The catalog domain of a field.
FieldDomain(field) ==
    CASE field = "room" -> Rooms
      [] field = "time" -> TimeSlots
      [] field = "facilitator" -> Facilitators

\* The value of a field of an assignment.
FieldOf(assignment, field) ==
    CASE field = "room" -> assignment.room
      [] field = "time" -> assignment.time
      [] field = "facilitator" -> assignment.facilitator

\* The draws of a plan for one field of one activity.
DrawsFor(plan, activity, field) ==
    { m \in plan : m.activity = activity /\ m.field = field }

\* A step from schedule before to schedule after changes an assignment
\* field exactly where the plan draws it, to the drawn value.
ChangedFieldByField(before, after, plan, p) ==
    /\ DOMAIN after.assignments = DOMAIN before.assignments
    /\ after.ref = before.ref
    /\ \A a \in DOMAIN before.assignments :
         /\ after.assignments[a].ref = before.assignments[a].ref
         /\ \A field \in FieldNames :
              /\ \/ FieldOf(after.assignments[a], field) =
                      FieldOf(before.assignments[a], field)
                 \/ FieldOf(after.assignments[a], field) \in FieldDomain(field)
              /\ DrawsFor(plan, a, field) = {} =>
                   FieldOf(after.assignments[a], field) =
                     FieldOf(before.assignments[a], field)
              /\ \A m \in DrawsFor(plan, a, field) :
                   FieldOf(after.assignments[a], field) = m.value
    /\ RatEq(p, Rat(0, 1)) => AssignmentValues(after) = AssignmentValues(before)

\* C24: a call of apply_mutation(schedule, p) changes the schedule field by
\* field: the key set is unchanged, every field of every assignment is its
\* previous value or a value of its catalog domain, a field is replaced
\* when its own draw came out and whatever the draws of the other two
\* fields of the assignment, and with p = 0 no assignment changes.
C24_MutationFieldByField ==
    [][ (mutation_draws_left' # mutation_draws_left /\ results' # None
           /\ Val(results').call = "apply_mutation") =>
          ChangedFieldByField(current_population[Val(results').schedule],
                              current_population'[Val(results').schedule],
                              Val(results').returned, current_mutation_rate) ]_vars

\* A call of apply_mutation replaced one field of an assignment and kept
\* the other two fields of that assignment.
C24_Witness ==
    /\ LastCall("apply_mutation")
    /\ \E m \in Val(results).returned :
         /\ Val(results).returned = { m }
         /\ FieldOf(CalledSchedule.assignments[m.activity], m.field) = m.value
         /\ \E s \in 1..NumSamples :
              /\ AssignmentValues(CalledSchedule) #
                   [ i \in 1..Len(ALL_ACTIVITIES) |-> SampleSchedule(s)[ALL_ACTIVITIES[i]] ]
              /\ \A a \in Activities : \A field \in FieldNames :
                   (a # m.activity \/ field # m.field) =>
                     FieldOf(CalledSchedule.assignments[a], field) =
                       FieldOf(ActivityAssignment(0, SampleSchedule(s)[a][1],
                                                  SampleSchedule(s)[a][2],
                                                  SampleSchedule(s)[a][3]), field)


(***************************************************************************)
(* Properties of Schedule.create_copy                                      *)
(***************************************************************************)
\* C25: schedule.create_copy() returns a new schedule over new assignment
\* objects that are equal by value to the original's; the copy carries the
\* original's cached fitness, its violations cache is unset, and a write to
\* the fields or the caches of the one is not seen through the other.
C25_CopyIsIndependent ==
    LastCall("create_copy") =>
      \E copy \in { Val(results).returned } :
        /\ AssignmentValues(copy) = AssignmentValues(CalledSchedule)
        /\ DOMAIN copy.assignments = DOMAIN CalledSchedule.assignments
        /\ copy.fitness = CalledSchedule.fitness
        /\ copy.violations = None
        /\ Independent(<< copy >>, current_population)
        /\ HeapSetViolations(current_population, copy.ref, None) = current_population
        /\ HeapSetViolations(<< copy >>, CalledSchedule.ref,
                             Some(ViolationCounts(CalledSchedule.assignments))) = << copy >>

\* A copy of a schedule whose two caches are set: the fitness is carried,
\* the violation map is not.
C25_Witness ==
    /\ LastCall("create_copy")
    /\ IsSet(CalledSchedule.fitness)
    /\ IsSet(CalledSchedule.violations)
    /\ Val(results).returned.fitness = CalledSchedule.fitness
    /\ Val(results).returned.violations = None
    /\ Val(results).returned.ref # CalledSchedule.ref


(***************************************************************************)
(* Properties of the cross-course rule                                     *)
(***************************************************************************)
\* The hours between the slots of the two sections of a cross-course pair.
HoursApart(schedule, pair) ==
    Abs(IndexOf(ALL_TIME_SLOTS, schedule.assignments[pair[1]].time)
          - IndexOf(ALL_TIME_SLOTS, schedule.assignments[pair[2]].time))

\* One room of the pair is in Beach or Roman and the other is not.
BuildingsMismatch(schedule, pair) ==
    (schedule.assignments[pair[1]].room
       \in { "Beach 201", "Beach 301", "Roman 201", "Roman 216" })
    # (schedule.assignments[pair[2]].room
         \in { "Beach 201", "Beach 301", "Roman 201", "Roman 216" })

\* The score term of a cross-course pair, in twentieths: -0.25 in the same
\* slot, +0.5 at one hour less 0.4 on a building mismatch, +0.25 at two
\* hours, 0 otherwise.
PairTerm(schedule, pair) ==
    CASE HoursApart(schedule, pair) = 0 -> -5
      [] HoursApart(schedule, pair) = 1 ->
           IF BuildingsMismatch(schedule, pair) THEN 10 - 8 ELSE 10
      [] HoursApart(schedule, pair) = 2 -> 5
      [] OTHER -> 0

\* The cross-course pairs of a schedule at an hour distance in hours.
PairsAt(schedule, hours) ==
    { i \in 1..Len(CROSS_SECTION_PAIRS) :
        HoursApart(schedule, CROSS_SECTION_PAIRS[i]) \in hours }

\* C26: for each of the four cross-course pairs the score term is -0.25 in
\* the same slot, +0.5 at hour distance 1 less 0.4 exactly when one room is
\* in Beach or Roman and the other is not, +0.25 at distance 2 and 0
\* otherwise; the violation pass counts the same cases, the building
\* mismatch only at distance 1, so that building_mismatch <=
\* consecutive_pair and same_time + consecutive_pair + one_hour_gap <= 4.
C26_CrossCourseRule ==
    /\ LastCall("calculate_schedule_fitness") =>
         Val(results).returned =
           SumActivityScores(CalledSchedule.assignments, Len(ALL_ACTIVITIES))
           + evaluate_section_spacing(SLA101_SECTIONS[1], SLA101_SECTIONS[2],
                                      CalledSchedule.assignments)
           + evaluate_section_spacing(SLA191_SECTIONS[1], SLA191_SECTIONS[2],
                                      CalledSchedule.assignments)
           + SumSet([ i \in 1..Len(CROSS_SECTION_PAIRS) |->
                        PairTerm(CalledSchedule, CROSS_SECTION_PAIRS[i]) ],
                    1..Len(CROSS_SECTION_PAIRS))
    /\ LastCall("calculate_constraint_violations") =>
         \E v \in { Val(results).returned } :
           /\ v["sla101_191_same_time"] = Cardinality(PairsAt(CalledSchedule, {0}))
           /\ v["sla101_191_consecutive_pair"] =
                Cardinality(PairsAt(CalledSchedule, {1}))
           /\ v["sla101_191_one_hour_gap"] = Cardinality(PairsAt(CalledSchedule, {2}))
           /\ v["sla101_191_building_mismatch"] =
                Cardinality({ i \in PairsAt(CalledSchedule, {1}) :
                                BuildingsMismatch(CalledSchedule, CROSS_SECTION_PAIRS[i]) })
           /\ v["sla101_191_building_mismatch"] <= v["sla101_191_consecutive_pair"]
           /\ v["sla101_191_same_time"] + v["sla101_191_consecutive_pair"]
                + v["sla101_191_one_hour_gap"] <= 4

\* The fitness of a schedule with a cross-course pair two hours apart in
\* mismatched buildings, beside a consecutive pair in mismatched buildings.
C26_Witness ==
    /\ LastCall("calculate_schedule_fitness")
    /\ \E i \in PairsAt(CalledSchedule, {2}) :
         BuildingsMismatch(CalledSchedule, CROSS_SECTION_PAIRS[i])
    /\ \E i \in PairsAt(CalledSchedule, {1}) :
         BuildingsMismatch(CalledSchedule, CROSS_SECTION_PAIRS[i])


(***************************************************************************)
(* Properties of the reproduction step                                     *)
(***************************************************************************)
\* The pairs drawn for the generation: those crossed over already and those
\* still to cross over.
PairsDrawn == Len(offspring_schedules) + Len(parent_combinations)

\* Every drawn pair names two schedules of the current population.
PairsFromPopulation ==
    \A k \in 1..Len(parent_combinations) :
      /\ parent_combinations[k][1] \in 1..Len(current_population)
      /\ parent_combinations[k][2] \in 1..Len(current_population)

\* The values of a child after the field replacements of a plan.
MutatedValues(child, plan) ==
    AssignmentValues(
      apply_mutation(<< child >>, child, plan)[1])

\* One iteration of the reproduction loop appends one child: the
\* configured crossover of the next pair, then mutated at the current rate;
\* the schedules of the population keep their assignments.
OneChildPerPair ==
    (pc = "reproduce" /\ pc' = "reproduce") =>
      /\ parent_combinations # << >>
      /\ parent_combinations' = Tail(parent_combinations)
      /\ Len(offspring_schedules') = Len(offspring_schedules) + 1
      /\ \E draw \in CrossoverDraws(config.crossover_method,
                                    NextParents[1], NextParents[2]) :
         \E plan \in { q \in SUBSET MutationDraws :
                         PlanPossible(q, current_mutation_rate) } :
           AssignmentValues(offspring_schedules'[Len(offspring_schedules')]) =
             MutatedValues(Crossover(config.crossover_method, NextParents[1],
                                     NextParents[2], draw, next_ref), plan)
      /\ offspring_schedules'[Len(offspring_schedules')].fitness = None
      /\ current_population' = current_population

\* The step that ends the reproduction loop puts at the head of the next
\* population copies of the best schedules as they were evaluated.
ElitesAsEvaluated ==
    (pc = "reproduce" /\ pc' = "loop") =>
      \A k \in 1..Len(current_population') :
        (k <= config.elitism_count) =>
          \E i \in 1..Len(current_population) :
            /\ AssignmentValues(current_population'[k]) =
                 AssignmentValues(current_population[i])
            /\ current_population'[k].fitness = Some(current_fitness_scores[i])
            /\ ComputeFitness(current_population[i].assignments) =
                 current_fitness_scores[i]
            /\ Cardinality({ j \in 1..Len(current_population) :
                               current_fitness_scores[j] > current_fitness_scores[i] })
                 < k

\* C27: in every generation that goes on, exactly population_size -
\* elitism_count parent pairs are drawn, both members of each pair are
\* schedules of the current population, one child is produced per pair by
\* the configured crossover and mutated at the current mutation rate, and
\* the reproduction step leaves the assignments of the population's
\* schedules unchanged, so that the elites taken afterwards are the best
\* schedules as evaluated.
C27_ReproductionStep ==
    /\ [](pc = "reproduce" =>
            /\ PairsDrawn = config.population_size - config.elitism_count
            /\ PairsFromPopulation)
    /\ [][OneChildPerPair]_vars
    /\ [][ElitesAsEvaluated]_vars

\* What holds of the reproduction step under every configuration:
\* max(0, population_size - elitism_count) pairs are drawn, and the rest of
\* the statement.
ReproductionStepWithClampedCount ==
    /\ [](pc = "reproduce" =>
            /\ PairsDrawn = NumberOfParentPairs(config)
            /\ PairsFromPopulation)
    /\ [][OneChildPerPair]_vars
    /\ [][ElitesAsEvaluated]_vars


(***************************************************************************)
(* Properties of the best fitness over a run                               *)
(***************************************************************************)
\* C28: with elitism_count >= 1, the best fitness of each GenerationRecord
\* is at least the best fitness of the record before it, and the fitness of
\* the returned best_schedule is at least the best fitness of the last
\* record.
C28_BestFitnessNeverWorse ==
    config.elitism_count >= 1 =>
      /\ \A i \in 1..(Len(generation_history) - 1) :
           generation_history[i + 1].best >= generation_history[i].best
      /\ (pc = "done" /\ generation_history # << >>) =>
           /\ IsSet(Val(results).best_schedule.fitness)
           /\ Val(Val(results).best_schedule.fitness)
                >= generation_history[Len(generation_history)].best

\* A run with an elite returned after a generation whose best fitness was
\* greater than that of the generation before it, and in which a schedule
\* fell below the best.
C28_Witness ==
    /\ pc = "done"
    /\ config.elitism_count >= 1
    /\ \E i \in 1..(Len(generation_history) - 1) :
         /\ generation_history[i + 1].best > generation_history[i].best
         /\ generation_history[i + 1].worst < generation_history[i + 1].best


(***************************************************************************)
(* Properties of the final statistics                                      *)
(***************************************************************************)
\* The loop was left by the plateau rule: break leaves generation_number
\* below maximum_generations.
PlateauExit == generation_number < config.maximum_generations

\* The last GenerationRecord of the run.
LastRecord == generation_history[Len(generation_history)]

\* The returned final statistics are the best, mean and worst of the
\* fitness of the returned population.
FinalStatisticsOfPopulation ==
    /\ Val(results).final_fitness_scores.best = SeqMax(FitnessOfPopulation)
    /\ RatEq(Val(results).final_fitness_scores.average,
             Rat(SeqSum(FitnessOfPopulation, Len(FitnessOfPopulation)),
                 Len(FitnessOfPopulation)))
    /\ Val(results).final_fitness_scores.worst = SeqMin(FitnessOfPopulation)

\* The returned final statistics are those of the last record.
FinalStatisticsOfLastRecord ==
    /\ Val(results).final_fitness_scores.best = LastRecord.best
    /\ RatEq(Val(results).final_fitness_scores.average, LastRecord.avg)
    /\ Val(results).final_fitness_scores.worst = LastRecord.worst

\* The population that the last iteration of the loop hands to the final
\* evaluation is made of new objects, while the population it replaces is
\* the one that was evaluated for the last record; no record is written
\* for the new one.
CeilingPopulationIsNew ==
    (pc = "reproduce" /\ pc' = "loop"
       /\ generation_number' = config.maximum_generations) =>
      /\ Independent(current_population', current_population)
      /\ Len(generation_history') = config.maximum_generations
      /\ \A i \in 1..Len(current_population) :
           current_population[i].fitness = Some(current_fitness_scores[i])

\* C29: the returned history has generations_run records and the final
\* statistics are those of the returned population; on plateau exit they
\* are the best, average and worst of the last record; at the
\* maximum_generations ceiling the final evaluation is of the population the
\* last iteration reproduced, which has no record, so that
\* maximum_generations records stand against maximum_generations + 1
\* evaluated populations.
C29_FinalStatistics ==
    /\ [](pc = "done" =>
            /\ Len(Val(results).history) = Val(results).generations_run
            /\ Val(results).history = generation_history
            /\ FinalStatisticsOfPopulation
            /\ PlateauExit =>
                 /\ generation_history # << >>
                 /\ Val(results).generations_run = generation_number + 1
                 /\ FinalStatisticsOfLastRecord
            /\ ~PlateauExit =>
                 Val(results).generations_run = config.maximum_generations)
    /\ [][CeilingPopulationIsNew]_vars

\* A run that ended at the ceiling with final statistics that are not
\* those of its last record.
C29_Witness ==
    /\ pc = "done"
    /\ ~PlateauExit
    /\ generation_history # << >>
    /\ ~FinalStatisticsOfLastRecord
    /\ FinalStatisticsOfPopulation


(***************************************************************************)
(* Properties of the number of generations run                             *)
(***************************************************************************)
\* The smaller of two numbers.
Smaller(m, n) == IF m <= n THEN m ELSE n

\* The greater of two numbers.
Greater(m, n) == IF m >= n THEN m ELSE n

\* The population is the one create_initial_population built, and no
\* object was made after it.
UnevolvedInitialPopulation ==
    /\ Len(current_population) = config.population_size
    /\ \A i \in 1..Len(current_population) :
         current_population[i].ref = 1 + (i - 1) * ObjectsPerSchedule
    /\ next_ref = 1 + config.population_size * ObjectsPerSchedule

\* C30: the plateau rule does not fire in the first generation, whatever
\* minimum_generations: every run returns generations_run >=
\* min(maximum_generations, max(minimum_generations, 2)), and with
\* maximum_generations = 0 it returns an empty history, generations_run = 0
\* and the best schedule of the unevolved initial population.
C30_NoPlateauInFirstGeneration ==
    /\ (pc = "final" /\ PlateauExit) => generation_number >= 1
    /\ pc = "done" =>
         /\ Val(results).generations_run >=
              Smaller(config.maximum_generations,
                      Greater(config.minimum_generations, 2))
         /\ config.maximum_generations = 0 =>
              /\ Val(results).history = << >>
              /\ Val(results).generations_run = 0
              /\ UnevolvedInitialPopulation
              /\ \E i \in 1..Len(current_population) :
                   /\ Val(results).best_schedule = current_population[i]
                   /\ \A j \in 1..Len(current_population) :
                        FitnessOfPopulation[j] <= FitnessOfPopulation[i]

\* A run with minimum_generations = 0 that the plateau rule stopped in its
\* second generation, the first in which the improvement is set.
C30_Witness ==
    /\ pc = "done"
    /\ config.minimum_generations = 0
    /\ config.maximum_generations > 2
    /\ PlateauExit
    /\ Val(results).generations_run = 2
    /\ generation_history[1].improvement = None
    /\ generation_history[2].improvement # None

=============================================================================
